---- MODULE Spec2Model ----
(***************************************************************************)
(* Model of the XSD target language of quicktype-core (language/XSD.ts):   *)
(* XSDRenderer lowers a type graph into an XSD tree (renderTypes,          *)
(* renderArray, renderClass, renderUnion, renderElements), XSDTypes        *)
(* re-reads the emitted schema into by-path dictionaries, and              *)
(* XMLFormatConverterHandler converts JSON to XML and back.                *)
(*                                                                         *)
(* Element tags, property names and paths are sequences of one-character   *)
(* strings, so that charAt/slice/lastIndexOf are computed as the code      *)
(* computes them.  XSD type names are TLA+ strings.                        *)
(***************************************************************************)
EXTENDS Integers, Sequences, FiniteSets, TLC

(***************************************************************************)
(* Strings                                                                 *)
(***************************************************************************)
LowerCase == <<"a","b","c","d","e","f","g","h","i","j","k","l","m",
               "n","o","p","q","r","s","t","u","v","w","x","y","z">>
UpperCase == <<"A","B","C","D","E","F","G","H","I","J","K","L","M",
               "N","O","P","Q","R","S","T","U","V","W","X","Y","Z">>

\* String.prototype.toUpperCase on one character
ToUpperCase(c) ==
    IF \E i \in 1..Len(LowerCase) : LowerCase[i] = c
    THEN UpperCase[CHOOSE i \in 1..Len(LowerCase) : LowerCase[i] = c]
    ELSE c

\* String.prototype.toLowerCase on one character
ToLowerCase(c) ==
    IF \E i \in 1..Len(UpperCase) : UpperCase[i] = c
    THEN LowerCase[CHOOSE i \in 1..Len(UpperCase) : UpperCase[i] = c]
    ELSE c

\* key.charAt(0).toUpperCase() + key.slice(1)
TitleCase(key) ==
    IF key = <<>> THEN <<>> ELSE <<ToUpperCase(Head(key))>> \o Tail(key)

ItemSuffix == <<"I","t","e","m">>

\* addXmlnsPrefix
AddXmlnsPrefix(name) == "xsd:" \o name

(***************************************************************************)
(* Type kinds                                                              *)
(***************************************************************************)
TransformedStringKinds ==
    {"date", "time", "date-time", "uri", "integer-string", "bool-string"}

\* the kinds PrimitiveTypeKind ranges over (the cases of the coercion switch)
PrimitiveTypeKinds ==
    {"none", "any", "null", "bool", "integer", "double", "string"}
        \cup TransformedStringKinds

isPrimitiveTypeKind(kind) == kind \in PrimitiveTypeKinds

isPrimitiveStringTypeKind(kind) == kind \in {"string"} \cup TransformedStringKinds

\* kinds for which renderTypes selects no callback
NoCallbackKinds == {"none", "any", "map", "object", "enum"}

mapPrimitiveKindToXSDTypes ==
    [k \in {"date", "time", "date-time", "uri", "integer-string", "bool-string",
            "string", "integer", "double", "bool", "null"} |->
        CASE k = "date" -> "dateType"
          [] k = "time" -> "timeType"
          [] k = "date-time" -> "dateTimeType"
          [] k = "uri" -> "uriType"
          [] k = "integer-string" -> "integerStringType"
          [] k = "bool-string" -> "booleanStringType"
          [] k = "string" -> AddXmlnsPrefix("string")
          [] k = "integer" -> AddXmlnsPrefix("integer")
          [] k = "double" -> AddXmlnsPrefix("decimal")
          [] k = "bool" -> AddXmlnsPrefix("boolean")
          [] k = "null" -> "nullType"]

PrimitiveXSDTypeNames ==
    {mapPrimitiveKindToXSDTypes[k] : k \in DOMAIN mapPrimitiveKindToXSDTypes}

(***************************************************************************)
(* XSD tree                                                                *)
(***************************************************************************)
supportedBaseTypes ==
    {"string", "integer", "decimal", "dateTime", "date", "time", "boolean"}

\* XSDSchemaWrapper.ele on the value of a base or type attribute
RewriteTypeAttribute(typeValue) ==
    IF typeValue \in supportedBaseTypes THEN AddXmlnsPrefix(typeValue) ELSE typeValue

typeAttributes == {"base", "type"}

\* fault variant of ele: the value of every attribute is rewritten
eleEveryAttribute(name, attributes) ==
    [name |-> AddXmlnsPrefix(name),
     attributes |-> [i \in 1..Len(attributes) |->
                        [attributes[i] EXCEPT !.value = RewriteTypeAttribute(@)]]]

\* XSDSchemaWrapper.ele: the name and the attributes this.inner.ele is
\* given; attributes are key / value pairs in insertion order
ele(name, attributes) ==
    [name |-> AddXmlnsPrefix(name),
     attributes |-> [i \in 1..Len(attributes) |->
                        IF attributes[i].key \in typeAttributes
                        THEN [attributes[i] EXCEPT !.value = RewriteTypeAttribute(@)]
                        ELSE attributes[i]]]

NoAttrs == [minOccurs |-> "", maxOccurs |-> ""]

\* an xsd:element node; absent attributes are ""
ElementNode(key, type, attrs) ==
    [tag |-> "element", name |-> "", key |-> key,
     type |-> RewriteTypeAttribute(type),
     minOccurs |-> attrs.minOccurs, maxOccurs |-> attrs.maxOccurs,
     inner |-> "", bases |-> <<>>, elements |-> <<>>]

\* a named xsd:complexType / xsd:simpleType node under the schema root
TypeNode(tag, name, inner, bases) ==
    [tag |-> tag, name |-> name, key |-> <<>>, type |-> "",
     minOccurs |-> "", maxOccurs |-> "",
     inner |-> inner, bases |-> bases, elements |-> <<>>]

\* renderBasicTypes: the library of simple types, in emission order
renderBasicTypes ==
    << TypeNode("simpleType", "dateType", "union",
                <<RewriteTypeAttribute("date"), RewriteTypeAttribute("string")>>),
       TypeNode("simpleType", "timeType", "union",
                <<RewriteTypeAttribute("time"), RewriteTypeAttribute("string"),
                  RewriteTypeAttribute("string")>>),
       TypeNode("simpleType", "booleanStringType", "restriction",
                <<RewriteTypeAttribute("string")>>),
       TypeNode("simpleType", "integerStringType", "restriction",
                <<RewriteTypeAttribute("string")>>),
       TypeNode("simpleType", "uriType", "restriction",
                <<RewriteTypeAttribute("string")>>),
       TypeNode("simpleType", "nullType", "restriction",
                <<RewriteTypeAttribute("string")>>) >>

\* schema.ele(...): schema 0 is the schema root, schema k > 0 is the content
\* node (all / sequence / union) of the k-th child of the root
EmitInto(rootSchema, schema, node) ==
    IF schema = 0 THEN Append(rootSchema, node)
    ELSE [rootSchema EXCEPT ![schema].elements = Append(@, node)]

(***************************************************************************)
(* Type graph.  graph[r] describes the type with TypeRef r:                *)
(* kind, items (array), props (class, in declaration order), members       *)
(* (union, in member order).                                               *)
(***************************************************************************)
TypeNodeOf(kind, items, props, members) ==
    [kind |-> kind, items |-> items, props |-> props, members |-> members]

LeafType(kind) == TypeNodeOf(kind, 0, <<>>, <<>>)
ArrayType(items) == TypeNodeOf("array", items, <<>>, <<>>)
ClassType(props) == TypeNodeOf("class", 0, props, <<>>)
UnionType(members) == TypeNodeOf("union", 0, <<>>, members)

ClassProperty(name, type, isOptional) ==
    [name |-> name, type |-> type, isOptional |-> isOptional]

\* number of class / array types of a graph; TypeRef 1 is the top level
NumTypes == 4

\* the leaf of a graph: every edge that leaves the class / array types
\* leads to it; its description is drawn like theirs
TerminalRef == NumTypes + 1
IntegerRef == NumTypes + 2
StringRef == NumTypes + 3
NullRef == NumTypes + 4

Unread == LeafType("unread")

FixedTypes ==
    [r \in {IntegerRef, StringRef, NullRef} |->
        CASE r = IntegerRef -> LeafType("integer")
          [] r = StringRef -> LeafType("string")
          [] r = NullRef -> LeafType("null")]

\* the type behind a TypeRef
TypeOf(g, r) == IF r \in DOMAIN g THEN g[r] ELSE FixedTypes[r]

(***************************************************************************)
(* XSDRenderer: lowering                                                   *)
(***************************************************************************)
VARIABLES
    graph,                  \* the type graph (read only)
    topLevelName,           \* name of the single top level
    rootSchema,             \* children of <xsd:schema>, in document order
    processedCustomTypes,   \* TypeRef -> complexTypeN
    typeRefsByElementName,  \* insertion-ordered: <<[key, entries]>>
    callStack,              \* pending renderTypes calls, innermost first
    elementIndex,           \* position of renderElements' forEach
    prefixIndex,            \* prefixIndex of renderElements' do-while
    failure,                \* "" or the error emitSource ends with
    pc

vars == <<graph, topLevelName, rootSchema, processedCustomTypes,
          typeRefsByElementName, callStack, elementIndex, prefixIndex,
          failure, pc>>

\* fault variant of NewTypeName: numbers from the size, not the size + 1
NewTypeNameFromSize(processed) ==
    "complexType" \o ToString(Cardinality(DOMAIN processed))

\* `complexType${this.processedCustomTypes.size + 1}`
NewTypeName(processed) ==
    "complexType" \o ToString(Cardinality(DOMAIN processed) + 1)

\* this.typeRefsByElementName.get(key) ?? []
ElementTypes(byName, key) ==
    IF \E i \in 1..Len(byName) : byName[i].key = key
    THEN byName[CHOOSE i \in 1..Len(byName) : byName[i].key = key].entries
    ELSE <<>>

\* this.typeRefsByElementName.set(key, elementTypes)
SetElementTypes(byName, key, entries) ==
    IF \E i \in 1..Len(byName) : byName[i].key = key
    THEN [i \in 1..Len(byName) |->
            IF byName[i].key = key THEN [key |-> key, entries |-> entries]
            ELSE byName[i]]
    ELSE Append(byName, [key |-> key, entries |-> entries])

RenderCall(t, schema, prefixes, key, additionalAttrs, createElement) ==
    [t |-> t, schema |-> schema, prefixes |-> prefixes, key |-> key,
     additionalAttrs |-> additionalAttrs, createElement |-> createElement]

\* the state the lowering works on
LowerState(schema, processed, byName, stack, fail) ==
    [rootSchema |-> schema, processedCustomTypes |-> processed,
     typeRefsByElementName |-> byName, callStack |-> stack, failure |-> fail]

\* createElementCondition
CreateElementCondition(st, c) ==
    LET isProcessed == c.t \in DOMAIN st.processedCustomTypes
        elementTypes == ElementTypes(st.typeRefsByElementName, c.key)
    IN c.createElement /\
       ((isProcessed /\
           ~ \E i \in 1..Len(elementTypes) : elementTypes[i].typeRef = c.t)
        \/ ~isProcessed)

\* fault variant of ReferencedTypeName: always the name a new type would get
ReferencedTypeNameFresh(st, c) == NewTypeName(st.processedCustomTypes)

\* processedType ?? newType: the type attribute of the referencing element
ReferencedTypeName(st, c) ==
    IF c.t \in DOMAIN st.processedCustomTypes THEN st.processedCustomTypes[c.t]
    ELSE NewTypeName(st.processedCustomTypes)

\* The part renderArray, renderClass and renderUnion share: record the
\* reference under its key, and emit the referencing element at the child
\* position unless that position is the schema root.
RecordAndReference(st, c) ==
    LET elementTypes == ElementTypes(st.typeRefsByElementName, c.key)
        byName == IF CreateElementCondition(st, c)
                  THEN SetElementTypes(st.typeRefsByElementName, c.key,
                         Append(elementTypes,
                                [typeRef |-> c.t, elementPrefixes |-> c.prefixes]))
                  ELSE st.typeRefsByElementName
        schema == IF c.schema # 0
                  THEN EmitInto(st.rootSchema, c.schema,
                                ElementNode(c.key, ReferencedTypeName(st, c),
                                            c.additionalAttrs))
                  ELSE st.rootSchema
    IN [st EXCEPT !.typeRefsByElementName = byName, !.rootSchema = schema]

\* the first-visit part: name the type, define it under the schema root and
\* call renderTypes on what it holds
DefineCustomType(st, t, node, calls, fail) ==
    [st EXCEPT !.processedCustomTypes = (t :> node.name) @@ @,
               !.rootSchema = Append(@, node),
               !.callStack = calls \o @,
               !.failure = fail]

\* fault variant of ArrayItemAttrs: maxOccurs is left out
ArrayItemAttrsBounded == [minOccurs |-> "0", maxOccurs |-> ""]

ArrayItemAttrs == [minOccurs |-> "0", maxOccurs |-> "unbounded"]

\* fault variant of renderArray: no early return for a processed type
renderArrayAgain(st, g, c) ==
    LET s1 == RecordAndReference(st, c)
    IN DefineCustomType(s1, c.t,
           TypeNode("complexType", NewTypeName(st.processedCustomTypes),
                    "sequence", <<>>),
           <<RenderCall(TypeOf(g, c.t).items, Len(s1.rootSchema) + 1, c.prefixes,
                        c.key \o ItemSuffix, ArrayItemAttrs, FALSE)>>,
           "")

\* fault variant of renderArray: the item is lowered under the array's key
renderArrayItemUnderKey(st, g, c) ==
    LET s1 == RecordAndReference(st, c)
    IN IF c.t \in DOMAIN st.processedCustomTypes THEN s1
       ELSE DefineCustomType(s1, c.t,
                TypeNode("complexType", NewTypeName(st.processedCustomTypes),
                         "sequence", <<>>),
                <<RenderCall(TypeOf(g, c.t).items, Len(s1.rootSchema) + 1,
                             c.prefixes, c.key, ArrayItemAttrs, FALSE)>>,
                "")

renderArray(st, g, c) ==
    LET s1 == RecordAndReference(st, c)
        newArrayType == NewTypeName(st.processedCustomTypes)
        itemElement == c.key \o ItemSuffix
        complexTypeSchema == Len(s1.rootSchema) + 1
    IN IF c.t \in DOMAIN st.processedCustomTypes THEN s1
       ELSE DefineCustomType(s1, c.t,
                TypeNode("complexType", newArrayType, "sequence", <<>>),
                <<RenderCall(TypeOf(g, c.t).items, complexTypeSchema, c.prefixes,
                             itemElement, ArrayItemAttrs, FALSE)>>,
                "")

\* fault variant of NewPrefixes: the chain is started anew at every class
NewPrefixesKeyOnly(prefixes, key) == <<key>>

\* [key, ...prefixes.map(prefix => prefix + TitleCase(key))]
NewPrefixes(prefixes, key) ==
    <<key>> \o [i \in 1..Len(prefixes) |-> prefixes[i] \o TitleCase(key)]

\* fault variant of DerivedElementAttrs: minOccurs is never set
DerivedElementAttrsNever(innerProp) == NoAttrs

\* derivedElementAttrs of one property
DerivedElementAttrs(innerProp) ==
    IF innerProp.isOptional THEN [minOccurs |-> "0", maxOccurs |-> ""] ELSE NoAttrs

\* fault variant of renderClass: a processed class is named and defined anew
renderClassAgain(st, g, c) ==
    LET s1 == RecordAndReference(st, c)
        props == TypeOf(g, c.t).props
    IN DefineCustomType(s1, c.t,
           TypeNode("complexType", NewTypeName(st.processedCustomTypes), "all", <<>>),
           [i \in 1..Len(props) |->
               RenderCall(props[i].type, Len(s1.rootSchema) + 1,
                          NewPrefixes(c.prefixes, c.key), props[i].name,
                          DerivedElementAttrs(props[i]), TRUE)],
           "")

renderClass(st, g, c) ==
    LET s1 == RecordAndReference(st, c)
        newClassType == NewTypeName(st.processedCustomTypes)
        newPrefixes == NewPrefixes(c.prefixes, c.key)
        complexTypeSchema == Len(s1.rootSchema) + 1
        props == TypeOf(g, c.t).props
    IN IF c.t \in DOMAIN st.processedCustomTypes THEN s1
       ELSE DefineCustomType(s1, c.t,
                TypeNode("complexType", newClassType, "all", <<>>),
                [i \in 1..Len(props) |->
                    RenderCall(props[i].type, complexTypeSchema, newPrefixes,
                               props[i].name, DerivedElementAttrs(props[i]), TRUE)],
                "")

\* the members renderUnion's forEach gets through before it panics: all of
\* them when none is refused
AcceptedMembers(g, members) ==
    LET refused(i) == ~isPrimitiveTypeKind(TypeOf(g, members[i]).kind)
                      \/ TypeOf(g, members[i]).kind \notin DOMAIN mapPrimitiveKindToXSDTypes
        n == IF \E i \in 1..Len(members) : refused(i)
             THEN (CHOOSE i \in 1..Len(members) :
                      refused(i) /\ \A j \in 1..(i-1) : ~refused(j)) - 1
             ELSE Len(members)
    IN SubSeq(members, 1, n)

\* fault variant of UnionFailure: a refused member is passed over silently
UnionFailureNone(g, members) == ""

\* the error renderUnion ends with, "" when it returns
UnionFailure(g, members) ==
    LET n == Len(AcceptedMembers(g, members))
    IN IF n = Len(members) THEN ""
       ELSE IF isPrimitiveTypeKind(TypeOf(g, members[n+1]).kind) THEN "internal-error"
       ELSE "unsupported-union"

renderUnion(st, g, c) ==
    LET s1 == RecordAndReference(st, c)
        newUnionType == NewTypeName(st.processedCustomTypes)
        accepted == AcceptedMembers(g, TypeOf(g, c.t).members)
        bases == [i \in 1..Len(accepted) |->
                    RewriteTypeAttribute(
                        mapPrimitiveKindToXSDTypes[TypeOf(g, accepted[i]).kind])]
    IN IF c.t \in DOMAIN st.processedCustomTypes THEN s1
       ELSE DefineCustomType(s1, c.t,
                TypeNode("simpleType", newUnionType, "union", bases),
                <<>>,
                UnionFailure(g, TypeOf(g, c.t).members))

\* renderNull, renderBool, renderInteger, renderDouble, renderString
renderPrimitive(st, c, xsdType) ==
    [st EXCEPT !.rootSchema =
        EmitInto(@, c.schema, ElementNode(c.key, xsdType, c.additionalAttrs))]

renderTransformedString(st, g, c) ==
    IF ~isPrimitiveStringTypeKind(TypeOf(g, c.t).kind) THEN st
    ELSE renderPrimitive(st, c, mapPrimitiveKindToXSDTypes[TypeOf(g, c.t).kind])

\* renderTypes on the innermost pending call
\* fault variant of renderTypes: a kind without callback is lowered as a
\* string
renderTypesAsString(st, g) ==
    LET c == Head(st.callStack)
        s0 == [st EXCEPT !.callStack = Tail(@)]
        kind == TypeOf(g, c.t).kind
    IN CASE kind \in NoCallbackKinds -> renderPrimitive(s0, c, "string")
         [] kind = "null" -> renderPrimitive(s0, c, "nullType")
         [] kind = "bool" -> renderPrimitive(s0, c, "boolean")
         [] kind = "integer" -> renderPrimitive(s0, c, "integer")
         [] kind = "double" -> renderPrimitive(s0, c, "decimal")
         [] kind = "string" -> renderPrimitive(s0, c, "string")
         [] kind = "array" -> renderArray(s0, g, c)
         [] kind = "class" -> renderClass(s0, g, c)
         [] kind = "union" -> renderUnion(s0, g, c)
         [] OTHER -> renderTransformedString(s0, g, c)

renderTypes(st, g) ==
    LET c == Head(st.callStack)
        s0 == [st EXCEPT !.callStack = Tail(@)]
        kind == TypeOf(g, c.t).kind
    IN CASE kind \in NoCallbackKinds -> s0
         [] kind = "null" -> renderPrimitive(s0, c, "nullType")
         [] kind = "bool" -> renderPrimitive(s0, c, "boolean")
         [] kind = "integer" -> renderPrimitive(s0, c, "integer")
         [] kind = "double" -> renderPrimitive(s0, c, "decimal")
         [] kind = "string" -> renderPrimitive(s0, c, "string")
         [] kind = "array" -> renderArray(s0, g, c)
         [] kind = "class" -> renderClass(s0, g, c)
         [] kind = "union" -> renderUnion(s0, g, c)
         [] OTHER -> renderTransformedString(s0, g, c)

(***************************************************************************)
(* XSDRenderer: renderElements                                             *)
(***************************************************************************)
\* arrayLast(elementPrefixes); <<>> stands for undefined
ArrayLast(s) == IF Len(s) = 0 THEN <<>> ELSE s[Len(s)]

\* fault variant of NewElementKey: the last prefix at every prefixIndex
NewElementKeyLastPrefix(entry, elementKey, i) ==
    IF ArrayLast(entry.elementPrefixes) # <<>>
    THEN ArrayLast(entry.elementPrefixes) \o TitleCase(elementKey)
    ELSE elementKey

\* newElementKey of one entry at prefixIndex i (0-based)
NewElementKey(entry, elementKey, i) ==
    LET currentPrefix == IF i + 1 <= Len(entry.elementPrefixes)
                         THEN entry.elementPrefixes[i + 1]
                         ELSE ArrayLast(entry.elementPrefixes)
    IN IF currentPrefix # <<>> THEN currentPrefix \o TitleCase(elementKey)
       ELSE elementKey

CandidateKeys(elementData, elementKey, i) ==
    [j \in 1..Len(elementData) |-> NewElementKey(elementData[j], elementKey, i)]

\* success after one pass of the do-while body
PassSucceeds(elementData, elementKey, i) ==
    LET cand == CandidateKeys(elementData, elementKey, i)
    IN \A j, k \in 1..Len(cand) : j # k => cand[j] # cand[k]

\* fault variant of AppendAll: the nodes are put first
PrependAll(schema, nodes) == nodes \o schema

RECURSIVE AppendAll(_, _)
AppendAll(schema, nodes) ==
    IF nodes = <<>> THEN schema
    ELSE AppendAll(Append(schema, Head(nodes)), Tail(nodes))

\* fault variant of renderSchemaElements: every element gets the first
\* entry's type
renderSchemaElementsFirstType(schema, processed, elementData, keys) ==
    AppendAll(schema,
        [j \in 1..Len(elementData) |->
            ElementNode(keys[j], processed[elementData[1].typeRef], NoAttrs)])

\* renderSchemaElements
renderSchemaElements(schema, processed, elementData, keys) ==
    AppendAll(schema,
        [j \in 1..Len(elementData) |->
            ElementNode(keys[j], processed[elementData[j].typeRef], NoAttrs)])

(***************************************************************************)
(* Documents.  A JavaScript value is a record: j is its type ("object",    *)
(* "array", "string", "number", "boolean", "null", "undefined"), text its  *)
(* string form (primitives), names / items its keys and values in          *)
(* insertion order (objects) or its items (arrays).  The object form       *)
(* xmlbuilder2 gives an XML document is such a value as well.              *)
(***************************************************************************)
JSValue(j, text, names, items) ==
    [j |-> j, text |-> text, names |-> names, items |-> items]

JSNull == JSValue("null", "", <<>>, <<>>)
JSUndefined == JSValue("undefined", "", <<>>, <<>>)
JSNumber(text) == JSValue("number", text, <<>>, <<>>)
JSString(text) == JSValue("string", text, <<>>, <<>>)
JSBoolean(text) == JSValue("boolean", text, <<>>, <<>>)
JSArray(items) == JSValue("array", "", <<>>, items)
JSObject(names, items) == JSValue("object", "", names, items)

\* typeof value === 'object'
TypeofObject(value) == value.j \in {"object", "array", "null"}

\* key in value, for a value that is an object or an array
HasKey(value, key) ==
    value.j = "object" /\ \E i \in 1..Len(value.names) : value.names[i] = key

\* value[key]
GetKey(value, key) ==
    IF HasKey(value, key)
    THEN value.items[CHOOSE i \in 1..Len(value.names) : value.names[i] = key]
    ELSE JSUndefined

\* Object.keys(value).length === 0, for typeof value === 'object'
NoKeys(value) ==
    \/ value.j = "object" /\ value.names = <<>>
    \/ value.j = "array" /\ value.items = <<>>

\* the strings Number() reads as a number, with Number(s).toString()
NumericStrings ==
    [s \in {"1", "2", "7", "007", "1.5", ""} |->
        CASE s = "007" -> "7"
          [] s = "" -> "0"
          [] OTHER -> s]

RECURSIVE ToNumber(_)
\* +value: the number's string form, "NaN" when it is not a number
ToNumber(value) ==
    CASE value.j = "number" -> value.text
      [] value.j = "string" ->
            IF value.text \in DOMAIN NumericStrings
            THEN NumericStrings[value.text] ELSE "NaN"
      [] value.j = "boolean" -> IF value.text = "true" THEN "1" ELSE "0"
      [] value.j = "null" -> "0"
      [] value.j = "array" ->
            IF value.items = <<>> THEN "0"
            ELSE IF Len(value.items) > 1 THEN "NaN"
            ELSE IF value.items[1].j \in {"null", "undefined"} THEN "0"
            ELSE IF value.items[1].j = "boolean" THEN "NaN"
            ELSE ToNumber(value.items[1])
      [] OTHER -> "NaN"

\* the strings the collaborators recognize: DateTimeRecognizer (moment,
\* locale ru, strict) and isURI
DateStrings == {"01.02.2020"}
TimeStrings == {"10:30"}
DateTimeStrings == {"2020-02-01T10:30:00Z", "2020-02-01"}
URIStrings == {"http://a.b"}

isDate(value) == value.j = "string" /\ value.text \in DateStrings
isTime(value) == value.j = "string" /\ value.text \in TimeStrings
isDateTime(value) == value.j = "string" /\ value.text \in DateTimeStrings
isURI(value) == value.j = "string" /\ value.text \in URIStrings

(***************************************************************************)
(* xmlbuilder2.  An element under construction is a record of its tag,     *)
(* attribute names, text and children.  ToXMLObject is convert(xml,        *)
(* {format: 'object'}) on the serialized element: an element of text only  *)
(* is a string, an empty element is {}, and the children of an element are *)
(* keyed by tag, a tag that occurs once holding the child and a tag that   *)
(* occurs several times in a row holding the list of them.                 *)
(***************************************************************************)
XMLElement(tag, text, children) ==
    [tag |-> tag, attrs |-> <<>>, text |-> text, children |-> children]

RECURSIVE Ascending(_)
\* the members of a set of numbers, smallest first
Ascending(S) ==
    IF S = {} THEN <<>>
    ELSE LET m == CHOOSE x \in S : \A y \in S : x <= y
         IN <<m>> \o Ascending(S \ {m})

RECURSIVE ToXMLObject(_)
ToXMLObject(element) ==
    LET children == element.children
        first == Ascending({i \in 1..Len(children) :
                              \A k \in 1..(i - 1) : children[k].tag # children[i].tag})
        group(i) == SelectSeq(children, LAMBDA c : c.tag = children[i].tag)
        valueOf(i) == IF Len(group(i)) = 1 THEN ToXMLObject(children[i])
                      ELSE JSArray([k \in 1..Len(group(i)) |-> ToXMLObject(group(i)[k])])
        textKeys == IF element.text = "" THEN <<>> ELSE << <<"#">> >>
    IN IF children = <<>> /\ element.attrs = <<>>
       THEN IF element.text = "" THEN JSObject(<<>>, <<>>) ELSE JSString(element.text)
       ELSE JSObject(element.attrs
                        \o [k \in 1..Len(first) |-> children[first[k]].tag]
                        \o textKeys,
                     [k \in 1..Len(element.attrs) |-> JSString("")]
                        \o [k \in 1..Len(first) |-> valueOf(first[k])]
                        \o [k \in 1..Len(textKeys) |-> JSString(element.text)])

\* toXMLObjectFromString / convert on a document: { rootTag: ... }
toXMLObjectFromString(document) ==
    JSObject(<<document.tag>>, <<ToXMLObject(document)>>)

(***************************************************************************)
(* XSDTypes: the emitted schema re-read into dictionaries                  *)
(***************************************************************************)
mapXSDTypesToPrimitiveKind ==
    [t \in PrimitiveXSDTypeNames |->
        CHOOSE k \in DOMAIN mapPrimitiveKindToXSDTypes : mapPrimitiveKindToXSDTypes[k] = t]

\* stands for undefined where a node of the schema is looked up
NoNode == TypeNode("", "", "", <<>>)

\* fetchTag(...).get(name) for the simpleType / complexType children of
\* <xsd:schema>: of several nodes of one name the map keeps the last
FetchedType(schema, tag, name) ==
    LET at == {i \in 1..Len(schema) : schema[i].tag = tag /\ schema[i].name = name}
    IN IF at = {} THEN NoNode
       ELSE schema[CHOOSE i \in at : \A k \in at : k <= i]

\* fetchTypesFromObject: this.elements, tag -> type in insertion order; of
\* several elements of one name the map keeps the first place and the last type
FetchedElements(schema) ==
    LET first == Ascending({i \in 1..Len(schema) :
                    /\ schema[i].tag = "element"
                    /\ \A k \in 1..(i - 1) :
                          schema[k].tag = "element" => schema[k].key # schema[i].key})
        last(i) == CHOOSE k \in i..Len(schema) :
                      /\ schema[k].tag = "element" /\ schema[k].key = schema[i].key
                      /\ \A m \in (k + 1)..Len(schema) :
                            ~(schema[m].tag = "element" /\ schema[m].key = schema[i].key)
    IN [k \in 1..Len(first) |->
          [tag |-> schema[first[k]].key, type |-> schema[last(first[k])].type]]

\* fetchTag destructures undefined when the schema holds no complexType or
\* no element at all
FetchTagFails(schema) ==
    \/ ~ \E i \in 1..Len(schema) : schema[i].tag = "complexType"
    \/ ~ \E i \in 1..Len(schema) : schema[i].tag = "element"

isCustomUnionType(simpleTypeInnerStructure, unionType) ==
    /\ unionType \notin PrimitiveXSDTypeNames
    /\ simpleTypeInnerStructure.tag = "simpleType"
    /\ simpleTypeInnerStructure.inner = "union"
    /\ Len(simpleTypeInnerStructure.bases) >= 2

isArrayType(complexTypeInnerStructure) ==
    /\ complexTypeInnerStructure.tag = "complexType"
    /\ complexTypeInnerStructure.inner = "sequence"
    /\ Len(complexTypeInnerStructure.elements) = 1
    /\ complexTypeInnerStructure.elements[1].maxOccurs = "unbounded"
    /\ complexTypeInnerStructure.elements[1].minOccurs = "0"

isClassType(complexTypeInnerStructure) ==
    /\ complexTypeInnerStructure.tag = "complexType"
    /\ complexTypeInnerStructure.inner = "all"
    /\ Len(complexTypeInnerStructure.elements) >= 1

getTypeKind(schema, xsdType) ==
    IF xsdType \in PrimitiveXSDTypeNames THEN mapXSDTypesToPrimitiveKind[xsdType]
    ELSE IF isCustomUnionType(FetchedType(schema, "simpleType", xsdType), xsdType)
    THEN "union"
    ELSE IF isArrayType(FetchedType(schema, "complexType", xsdType)) THEN "array"
    ELSE IF isClassType(FetchedType(schema, "complexType", xsdType)) THEN "class"
    ELSE "none"

\* the ClassProp entries of a class, in element order
getClassTypeProperties(schema, complexTypeInnerStructure) ==
    LET elements == complexTypeInnerStructure.elements
    IN [i \in 1..Len(elements) |->
          [name |-> elements[i].key,
           type |-> elements[i].type,
           isOptional |-> elements[i].minOccurs = "0",
           kind |-> getTypeKind(schema, elements[i].type)]]

getArrayTypeItem(schema, complexTypeInnerStructure) ==
    LET arrayElement == complexTypeInnerStructure.elements[1]
    IN [itemType |-> arrayElement.type,
        itemTag |-> arrayElement.key,
        kind |-> getTypeKind(schema, arrayElement.type)]

getUnionTypeKinds(unionStructure) ==
    [i \in 1..Len(unionStructure.bases) |->
        mapXSDTypesToPrimitiveKind[unionStructure.bases[i]]]

\* `${path}.${tag}`
ChildPath(path, tag) == path \o <<".">> \o tag

\* the dictionaries by path; overflow is set when the descent does not end:
\* it nests deeper than the schema has nodes, so a type repeats on the way
\* down and the calls go on until the call stack is exhausted
NoTypes ==
    [objectTypesByPath |-> <<>>, arrayTypesByPath |-> <<>>,
     unionTypesByPath |-> <<>>, overflow |-> FALSE]

RECURSIVE getXSDObjectTypesStructure(_, _, _, _, _)
RECURSIVE DescendProperties(_, _, _, _, _, _)

\* iterateDeep
iterateDeep(schema, types, kind, type, path, depth) ==
    IF kind \in {"class", "array", "union"}
    THEN getXSDObjectTypesStructure(schema, types, type, path, depth + 1)
    ELSE types

\* classProperties.forEach(... iterateDeep ...), from the i-th property on
DescendProperties(schema, types, classProperties, i, elementPath, depth) ==
    IF i > Len(classProperties) \/ types.overflow THEN types
    ELSE DescendProperties(schema,
             iterateDeep(schema, types, classProperties[i].kind,
                         classProperties[i].type,
                         ChildPath(elementPath, classProperties[i].name), depth),
             classProperties, i + 1, elementPath, depth)

getXSDObjectTypesStructure(schema, types, elementType, elementPath, depth) ==
    LET complexTypeInnerStructure == FetchedType(schema, "complexType", elementType)
        simpleTypeInnerStructure == FetchedType(schema, "simpleType", elementType)
        arrayItem == getArrayTypeItem(schema, complexTypeInnerStructure)
        classProperties == getClassTypeProperties(schema, complexTypeInnerStructure)
    IN IF types.overflow THEN types
       ELSE IF depth > Len(schema) THEN [types EXCEPT !.overflow = TRUE]
       ELSE IF isCustomUnionType(simpleTypeInnerStructure, elementType)
       THEN [types EXCEPT !.unionTypesByPath =
                (elementPath :> getUnionTypeKinds(simpleTypeInnerStructure)) @@ @]
       ELSE IF isArrayType(complexTypeInnerStructure)
       THEN iterateDeep(schema,
                [types EXCEPT !.arrayTypesByPath = (elementPath :> arrayItem) @@ @],
                arrayItem.kind, arrayItem.itemType,
                ChildPath(elementPath, arrayItem.itemTag), depth)
       ELSE IF isClassType(complexTypeInnerStructure)
       THEN DescendProperties(schema,
                [types EXCEPT !.objectTypesByPath = (elementPath :> classProperties) @@ @],
                classProperties, 1, elementPath, depth)
       ELSE types

RECURSIVE getTypesStructure(_, _, _, _)
\* this.elements.forEach(getXSDObjectTypesStructure), from the i-th element on
getTypesStructure(schema, types, elements, i) ==
    IF i > Len(elements) \/ types.overflow THEN types
    ELSE getTypesStructure(schema,
             getXSDObjectTypesStructure(schema, types, elements[i].type,
                                        elements[i].tag, 1),
             elements, i + 1)

\* new XSDTypes(xsdObject, dateTimeRecognizer)
NewXSDTypes(schema) ==
    getTypesStructure(schema, NoTypes, FetchedElements(schema), 1)

getUnionType(types, path) ==
    IF path \in DOMAIN types.unionTypesByPath THEN types.unionTypesByPath[path] ELSE <<>>
getClassType(types, path) ==
    IF path \in DOMAIN types.objectTypesByPath THEN types.objectTypesByPath[path] ELSE <<>>
hasUnionType(types, path) == path \in DOMAIN types.unionTypesByPath
hasClassType(types, path) == path \in DOMAIN types.objectTypesByPath
hasArrayType(types, path) == path \in DOMAIN types.arrayTypesByPath
getArrayType(types, path) == types.arrayTypesByPath[path]

(***************************************************************************)
(* XSDTypes: primitive coercion.  JSUndefined is the mismatch.             *)
(***************************************************************************)
\* value.toString() of a primitive
ToStringOf(value) == JSString(value.text)

getPrimitiveKindXMLValue(value, kind) ==
    CASE kind \in {"integer-string", "double", "integer"} ->
            IF ToNumber(value) # "NaN" THEN JSString(ToNumber(value)) ELSE JSUndefined
      [] kind \in {"bool-string", "bool"} ->
            IF value.j = "boolean"
               \/ (value.j = "string" /\ value.text \in {"true", "false"})
            THEN ToStringOf(value) ELSE JSUndefined
      [] kind = "date" -> IF isDate(value) THEN value ELSE JSUndefined
      [] kind = "time" -> IF isTime(value) THEN value ELSE JSUndefined
      [] kind = "date-time" -> IF isDateTime(value) THEN value ELSE JSUndefined
      [] kind = "uri" -> IF isURI(value) THEN value ELSE JSUndefined
      [] kind \in {"any", "none"} -> JSString("")
      [] kind = "null" -> IF value.j = "null" THEN JSString("") ELSE JSUndefined
      [] kind = "string" -> IF value.j = "string" THEN value ELSE JSUndefined
      [] OTHER -> JSUndefined

\* fault variant of getPrimitiveKindJSONValue: none and null accept the
\* nullish values only
getPrimitiveKindJSONValueNullish(value, kind) ==
    CASE kind \in {"double", "integer"} ->
            IF ToNumber(value) # "NaN" THEN JSNumber(ToNumber(value)) ELSE JSUndefined
      [] kind = "integer-string" ->
            IF ToNumber(value) # "NaN" THEN JSString(ToNumber(value)) ELSE JSUndefined
      [] kind = "bool" ->
            IF value.j = "boolean"
               \/ (value.j = "string" /\ value.text \in {"true", "false"})
            THEN JSBoolean(value.text) ELSE JSUndefined
      [] kind = "bool-string" ->
            IF value.j = "boolean"
               \/ (value.j = "string" /\ value.text \in {"true", "false"})
            THEN ToStringOf(value) ELSE JSUndefined
      [] kind = "date" -> IF isDate(value) THEN value ELSE JSUndefined
      [] kind = "time" -> IF isTime(value) THEN value ELSE JSUndefined
      [] kind = "date-time" -> IF isDateTime(value) THEN value ELSE JSUndefined
      [] kind = "uri" -> IF isURI(value) THEN value ELSE JSUndefined
      [] kind = "any" -> value
      [] kind \in {"none", "null"} ->
            IF value.j \in {"null", "undefined"} THEN JSNull ELSE JSUndefined
      [] kind = "string" ->
            IF value.j = "string" THEN value
            ELSE IF TypeofObject(value) /\ value.j # "null" /\ NoKeys(value)
            THEN JSString("")
            ELSE JSUndefined
      [] OTHER -> JSUndefined

getPrimitiveKindJSONValue(value, kind) ==
    CASE kind \in {"double", "integer"} ->
            IF ToNumber(value) # "NaN" THEN JSNumber(ToNumber(value)) ELSE JSUndefined
      [] kind = "integer-string" ->
            IF ToNumber(value) # "NaN" THEN JSString(ToNumber(value)) ELSE JSUndefined
      [] kind = "bool" ->
            IF value.j = "boolean"
               \/ (value.j = "string" /\ value.text \in {"true", "false"})
            THEN JSBoolean(value.text) ELSE JSUndefined
      [] kind = "bool-string" ->
            IF value.j = "boolean"
               \/ (value.j = "string" /\ value.text \in {"true", "false"})
            THEN ToStringOf(value) ELSE JSUndefined
      [] kind = "date" -> IF isDate(value) THEN value ELSE JSUndefined
      [] kind = "time" -> IF isTime(value) THEN value ELSE JSUndefined
      [] kind = "date-time" -> IF isDateTime(value) THEN value ELSE JSUndefined
      [] kind = "uri" -> IF isURI(value) THEN value ELSE JSUndefined
      [] kind = "any" -> value
      [] kind \in {"none", "null"} ->
            IF value.j \in {"null", "undefined"}
               \/ (TypeofObject(value) /\ value.j # "null" /\ NoKeys(value))
            THEN JSNull ELSE JSUndefined
      [] kind = "string" ->
            IF value.j = "string" THEN value
            ELSE IF TypeofObject(value) /\ value.j # "null" /\ NoKeys(value)
            THEN JSString("")
            ELSE JSUndefined
      [] OTHER -> JSUndefined

getPrimitiveKindValue(value, kind, format) ==
    IF format = "XML" THEN getPrimitiveKindXMLValue(value, kind)
    ELSE getPrimitiveKindJSONValue(value, kind)

\* the outcome of a conversion step: the value, or a failure (panic)
Converted(value) == [ok |-> TRUE, value |-> value]
Panic == [ok |-> FALSE, value |-> JSUndefined]

parsePrimitiveKind(value, kind, format) ==
    IF getPrimitiveKindValue(value, kind, format) = JSUndefined THEN Panic
    ELSE Converted(getPrimitiveKindValue(value, kind, format))

\* fault variant of parseUnion: the last member that accepts the value
parseUnionLast(types, value, unionPath, format) ==
    LET kinds == getUnionType(types, unionPath)
        accepting == {i \in 1..Len(kinds) :
                         getPrimitiveKindValue(value, kinds[i], format) # JSUndefined}
    IN IF ~hasUnionType(types, unionPath) \/ accepting = {} THEN Panic
       ELSE parsePrimitiveKind(value,
                kinds[CHOOSE i \in accepting : \A k \in accepting : i >= k], format)

parseUnion(types, value, unionPath, format) ==
    LET kinds == getUnionType(types, unionPath)
        accepting == {i \in 1..Len(kinds) :
                         getPrimitiveKindValue(value, kinds[i], format) # JSUndefined}
    IN IF ~hasUnionType(types, unionPath) \/ accepting = {} THEN Panic
       ELSE parsePrimitiveKind(value,
                kinds[CHOOSE i \in accepting : \A k \in accepting : i <= k], format)

\* fault variant of isValidClassPropsInXMLObject: presence is not looked at
isValidClassPropsKindsOnly(types, currentXMLObject, path) ==
    /\ hasClassType(types, path)
    /\ \A i \in 1..Len(getClassType(types, path)) :
          LET propData == getClassType(types, path)[i]
              propPath == ChildPath(path, propData.name)
          IN CASE propData.kind = "union" -> hasUnionType(types, propPath)
               [] propData.kind = "array" -> hasArrayType(types, propPath)
               [] propData.kind = "class" -> hasClassType(types, propPath)
               [] OTHER -> isPrimitiveTypeKind(propData.kind)

isValidClassPropsInXMLObject(types, currentXMLObject, path) ==
    /\ hasClassType(types, path)
    /\ \A i \in 1..Len(getClassType(types, path)) :
          LET propData == getClassType(types, path)[i]
              propPath == ChildPath(path, propData.name)
          IN /\ HasKey(currentXMLObject, propData.name) \/ propData.isOptional
             /\ CASE propData.kind = "union" -> hasUnionType(types, propPath)
                  [] propData.kind = "array" -> hasArrayType(types, propPath)
                  [] propData.kind = "class" -> hasClassType(types, propPath)
                  [] OTHER -> isPrimitiveTypeKind(propData.kind)

\* "" stands for undefined
getXMLObjectKind(types, currentObject, path) ==
    IF hasUnionType(types, path) THEN "union"
    ELSE IF hasArrayType(types, path)
            /\ HasKey(currentObject, getArrayType(types, path).itemTag) THEN "array"
    ELSE IF hasClassType(types, path)
            /\ isValidClassPropsInXMLObject(types, currentObject, path) THEN "class"
    ELSE ""

(***************************************************************************)
(* XMLFormatConverterHandler                                               *)
(***************************************************************************)
\* currentPath ? `${currentPath}.${objectTag}` : objectTag
ExtendPath(currentPath, objectTag) ==
    IF currentPath = <<>> THEN objectTag ELSE ChildPath(currentPath, objectTag)

\* currentPath.lastIndexOf('.'), 1-based; 0 when there is none
LastIndexOfDot(currentPath) ==
    IF \E i \in 1..Len(currentPath) : currentPath[i] = "."
    THEN CHOOSE i \in 1..Len(currentPath) :
            currentPath[i] = "." /\ \A k \in (i + 1)..Len(currentPath) : currentPath[k] # "."
    ELSE 0

\* currentPath.slice(0, currentPath.lastIndexOf('.')); slice(0, -1) drops
\* the last character
SliceToParent(currentPath) ==
    IF LastIndexOfDot(currentPath) = 0
    THEN SubSeq(currentPath, 1, Len(currentPath) - 1)
    ELSE SubSeq(currentPath, 1, LastIndexOfDot(currentPath) - 1)

XMLNSAttribute == <<"@", "xmlns:xsd">>
SchemaLocationAttribute == <<"@", "xsd:noNamespaceSchemaLocation">>

NoElement == XMLElement(<<>>, "", <<>>)

\* outcome of parseJSON's parseCurrentObject: the element built and the
\* currentPath it leaves
\* a call of parseCurrentObject: the tags of the node and of the nodes
\* above it, currentPath after its first statement, currentPath on return
Visit(objectTag, path, left) == [chain |-> <<objectTag>>, path |-> path, left |-> left]

\* the calls made for a node of tag objectTag and those made under it
VisitsUnder(objectTag, path, left, below) ==
    <<Visit(objectTag, path, left)>>
        \o [k \in 1..Len(below) |-> [below[k] EXCEPT !.chain = <<objectTag>> \o @]]

Built(node, currentPath, visits) ==
    [ok |-> TRUE, node |-> node, currentPath |-> currentPath, visits |-> visits]
BuildPanic == [ok |-> FALSE, node |-> NoElement, currentPath |-> <<>>, visits |-> <<>>]

RECURSIVE parseJSONCurrentObject(_, _, _, _, _)
RECURSIVE parseJSONChildren(_, _, _, _, _, _, _)

\* the forEach of the array / class branch from the i-th child on; children
\* holds the elements built so far; kind "" is a property the class lacks
parseJSONChildren(types, values, tags, kinds, i, currentPath, children) ==
    IF i > Len(values)
    THEN [ok |-> TRUE, children |-> children, currentPath |-> currentPath,
          visits |-> <<>>]
    ELSE IF kinds[i] = ""
    THEN [ok |-> FALSE, children |-> <<>>, currentPath |-> <<>>, visits |-> <<>>]
    ELSE LET r == parseJSONCurrentObject(types, values[i], tags[i], kinds[i], currentPath)
             rest == parseJSONChildren(types, values, tags, kinds, i + 1,
                                       r.currentPath, Append(children, r.node))
         IN IF ~r.ok
            THEN [ok |-> FALSE, children |-> <<>>, currentPath |-> <<>>, visits |-> <<>>]
            ELSE [rest EXCEPT !.visits = r.visits \o @]

parseJSONCurrentObject(types, currentObject, objectTag, kind, currentPath) ==
    LET path == ExtendPath(currentPath, objectTag)
        union == parseUnion(types, currentObject, path, "XML")
        primitive == parsePrimitiveKind(currentObject, kind, "XML")
        arrayItem == getArrayType(types, path)
        n == Len(currentObject.items)
        items == parseJSONChildren(types, currentObject.items,
                     [i \in 1..n |-> arrayItem.itemTag],
                     [i \in 1..n |-> arrayItem.kind], 1, path, <<>>)
        objectStructure == getClassType(types, path)
        propKind(propName) ==
            IF \E k \in 1..Len(objectStructure) : objectStructure[k].name = propName
            THEN objectStructure[CHOOSE k \in 1..Len(objectStructure) :
                                    objectStructure[k].name = propName].kind
            ELSE ""
        \* Object.entries of an array are its indices, none of them a property
        entryNames == IF currentObject.j = "array" THEN [i \in 1..n |-> <<"0">>]
                      ELSE currentObject.names
        props == parseJSONChildren(types, currentObject.items, entryNames,
                     [i \in 1..n |-> IF currentObject.j = "array" THEN ""
                                     ELSE propKind(entryNames[i])],
                     1, path, <<>>)
    IN IF kind = "union"
       THEN IF union.ok
            THEN Built(XMLElement(objectTag, union.value.text, <<>>), SliceToParent(path),
                       VisitsUnder(objectTag, path, SliceToParent(path), <<>>))
            ELSE BuildPanic
       ELSE IF currentObject.j = "array" /\ kind = "array"
       THEN IF hasArrayType(types, path) /\ items.ok
            THEN Built(XMLElement(objectTag, "", items.children),
                       SliceToParent(items.currentPath),
                       VisitsUnder(objectTag, path, SliceToParent(items.currentPath),
                                   items.visits))
            ELSE BuildPanic
       ELSE IF TypeofObject(currentObject) /\ kind = "class"
       THEN IF hasClassType(types, path) /\ currentObject.j # "null" /\ props.ok
            THEN Built(XMLElement(objectTag, "", props.children),
                       SliceToParent(props.currentPath),
                       VisitsUnder(objectTag, path, SliceToParent(props.currentPath),
                                   props.visits))
            ELSE BuildPanic
       ELSE IF isPrimitiveTypeKind(kind)
       THEN IF primitive.ok
            THEN Built(XMLElement(objectTag, primitive.value.text, <<>>),
                       SliceToParent(path),
                       VisitsUnder(objectTag, path, SliceToParent(path), <<>>))
            ELSE BuildPanic
       ELSE BuildPanic

\* parseJSON: the document built, before it is serialized
parseJSON(jsonObject, types, topLevelTag) ==
    LET topKind == IF jsonObject.j = "array" THEN "array" ELSE "class"
        top == parseJSONCurrentObject(types, jsonObject, topLevelTag, topKind, <<>>)
    IN IF top.ok
       THEN Built([top.node EXCEPT !.attrs = <<XMLNSAttribute, SchemaLocationAttribute>>],
                  top.currentPath, top.visits)
       ELSE BuildPanic

\* outcome of parseXMLtoJSON's parseCurrentObject
Parsed(value, currentPath, visits) ==
    [ok |-> TRUE, value |-> value, currentPath |-> currentPath, visits |-> visits]
ParsePanic == [ok |-> FALSE, value |-> JSUndefined, currentPath |-> <<>>, visits |-> <<>>]

RECURSIVE parseXMLCurrentObject(_, _, _, _, _)
RECURSIVE parseXMLChildren(_, _, _, _, _, _, _)

parseXMLChildren(types, values, tags, kinds, i, currentPath, results) ==
    IF i > Len(values)
    THEN [ok |-> TRUE, results |-> results, currentPath |-> currentPath, visits |-> <<>>]
    ELSE LET r == parseXMLCurrentObject(types, values[i], tags[i], kinds[i], currentPath)
             rest == parseXMLChildren(types, values, tags, kinds, i + 1,
                                      r.currentPath, Append(results, r.value))
         IN IF ~r.ok
            THEN [ok |-> FALSE, results |-> <<>>, currentPath |-> <<>>, visits |-> <<>>]
            ELSE [rest EXCEPT !.visits = r.visits \o @]

parseXMLCurrentObject(types, currentXMLObject, objectTag, kind, currentPath) ==
    LET path == ExtendPath(currentPath, objectTag)
        union == parseUnion(types, currentXMLObject, path, "JSON")
        primitive == parsePrimitiveKind(currentXMLObject, kind, "JSON")
        arrayItemType == getArrayType(types, path)
        list == GetKey(currentXMLObject, arrayItemType.itemTag)
        items == parseXMLChildren(types, list.items,
                     [i \in 1..Len(list.items) |-> arrayItemType.itemTag],
                     [i \in 1..Len(list.items) |-> arrayItemType.kind], 1, path, <<>>)
        classProps == getClassType(types, path)
        declared(propKey) == \E k \in 1..Len(classProps) : classProps[k].name = propKey
        propType(propKey) ==
            classProps[CHOOSE k \in 1..Len(classProps) : classProps[k].name = propKey]
        \* the entries that are neither attributes nor undeclared
        kept == IF currentXMLObject.j # "object" THEN <<>>
                ELSE Ascending({i \in 1..Len(currentXMLObject.names) :
                        /\ Head(currentXMLObject.names[i]) # "@"
                        /\ declared(currentXMLObject.names[i])})
        props == parseXMLChildren(types,
                     [k \in 1..Len(kept) |-> currentXMLObject.items[kept[k]]],
                     [k \in 1..Len(kept) |-> currentXMLObject.names[kept[k]]],
                     [k \in 1..Len(kept) |-> propType(currentXMLObject.names[kept[k]]).kind],
                     1, path, <<>>)
    IN IF kind = "union"
       THEN IF union.ok
            THEN Parsed(union.value, SliceToParent(path),
                        VisitsUnder(objectTag, path, SliceToParent(path), <<>>))
            ELSE ParsePanic
       ELSE IF kind = "array" /\ TypeofObject(currentXMLObject)
       THEN IF hasArrayType(types, path) /\ list.j = "array" /\ items.ok
            THEN Parsed(JSArray(items.results), SliceToParent(items.currentPath),
                        VisitsUnder(objectTag, path, SliceToParent(items.currentPath),
                                    items.visits))
            ELSE ParsePanic
       ELSE IF kind = "class" /\ TypeofObject(currentXMLObject)
       THEN IF hasClassType(types, path)
               /\ isValidClassPropsInXMLObject(types, currentXMLObject, path)
               /\ props.ok
            THEN Parsed(JSObject([k \in 1..Len(kept) |-> currentXMLObject.names[kept[k]]],
                                 props.results),
                        SliceToParent(props.currentPath),
                        VisitsUnder(objectTag, path, SliceToParent(props.currentPath),
                                    props.visits))
            ELSE ParsePanic
       ELSE IF kind # "" /\ isPrimitiveTypeKind(kind)
       THEN IF primitive.ok
            THEN Parsed(primitive.value, SliceToParent(path),
                        VisitsUnder(objectTag, path, SliceToParent(path), <<>>))
            ELSE ParsePanic
       ELSE ParsePanic

parseXMLtoJSON(xmlObject, types) ==
    LET omittedTopTag == xmlObject.names[1]
        xmlDataObject == xmlObject.items[1]
        topDataKind == getXMLObjectKind(types, xmlDataObject, omittedTopTag)
    IN parseXMLCurrentObject(types, xmlDataObject, omittedTopTag, topDataKind, <<>>)

(***************************************************************************)
(* CompressedJSON.  A field that may be undefined is a sequence of no or   *)
(* one value.  The object a context's currentUncompressedObject refers to  *)
(* is named by where it sits in _uncompressedSource, or is an object that  *)
(* nothing reachable from _uncompressedSource holds.  Property keys and    *)
(* string values are strings.                                              *)
(***************************************************************************)
Undefined == <<>>
Some(value) == <<value>>

Tag == [Null |-> 0, Integer |-> 1, Double |-> 2, InternedString |-> 3,
        Object |-> 4, Array |-> 5, StringFormat |-> 6, Boolean |-> 7]

TAG_BITS == 4

\* t | (index << TAG_BITS)
makeValue(t, index) == t + index * (2 ^ TAG_BITS)

\* a step from a structure to what it holds: a key of an object (index 0)
\* or a position of an array
PathStep(key, index) == [key |-> key, index |-> index]

Reference(attached, isArray, path) ==
    [attached |-> attached, isArray |-> isArray, path |-> path]

\* the Context pushContext makes
NewContext ==
    [currentObject |-> Undefined, currentArray |-> Undefined,
     currentKey |-> Undefined, currentNumberChunk |-> Undefined,
     currentUncompressedObject |-> Undefined]

\* the fields of a CompressedJSON after construction; panic is the message
\* of the panic or assertion that ended a method, "" when none did
NewCompressedJSON(handleRefs) ==
    [handleRefs |-> handleRefs, rootValue |-> Undefined, ctx |-> Undefined,
     contextStack |-> <<>>, strings |-> <<>>, objects |-> <<>>, arrays |-> <<>>,
     uncompressedSource |-> JSObject(<<>>, <<>>), panic |-> ""]

Panicked(c, message) == [c EXCEPT !.panic = message]

\* internString: the index returned, and _strings afterwards
internString(strings, s) ==
    IF \E i \in 1..Len(strings) : strings[i] = s
    THEN (CHOOSE i \in 1..Len(strings) : strings[i] = s) - 1
    ELSE Len(strings)

InternedStrings(strings, s) ==
    IF \E i \in 1..Len(strings) : strings[i] = s THEN strings ELSE Append(strings, s)

commitValue(c, value) ==
    IF c.ctx = Undefined
    THEN IF c.rootValue # Undefined
         THEN Panicked(c, "Committing value but nowhere to commit to - root value still there.")
         ELSE [c EXCEPT !.rootValue = Some(value)]
    ELSE IF c.ctx[1].currentObject # Undefined
    THEN IF c.ctx[1].currentKey = Undefined
         THEN Panicked(c, "Must have key and can't have string when committing")
         ELSE [c EXCEPT
                 !.strings = InternedStrings(@, c.ctx[1].currentKey[1]),
                 !.ctx[1].currentObject[1] =
                     @ \o <<makeValue(Tag.InternedString,
                                      internString(c.strings, c.ctx[1].currentKey[1])),
                            value>>,
                 !.ctx[1].currentKey = Undefined]
    ELSE IF c.ctx[1].currentArray # Undefined
    THEN [c EXCEPT !.ctx[1].currentArray[1] = Append(@, value)]
    ELSE Panicked(c, "Committing value but nowhere to commit to")

pushContext(c) ==
    [c EXCEPT !.contextStack = IF c.ctx # Undefined THEN Append(@, c.ctx[1]) ELSE @,
              !.ctx = Some(NewContext)]

popContext(c) ==
    IF c.ctx = Undefined THEN Panicked(c, "Popping context when there isn't one")
    ELSE [c EXCEPT !.ctx = IF c.contextStack = <<>> THEN Undefined
                           ELSE Some(c.contextStack[Len(c.contextStack)]),
                   !.contextStack = SubSeq(@, 1, Len(@) - 1)]

\* parentStructure.push(value) / Object.assign(parentStructure, {[key]: value})
PutInto(structure, key, value) ==
    IF structure.j = "array" THEN [structure EXCEPT !.items = Append(@, value)]
    ELSE IF \E i \in 1..Len(structure.names) : structure.names[i] = key
    THEN [structure EXCEPT
            !.items[CHOOSE i \in 1..Len(structure.names) : structure.names[i] = key] =
                value]
    ELSE [structure EXCEPT !.names = Append(@, key), !.items = Append(@, value)]

\* where a step leads in a structure
PositionOf(structure, step) ==
    IF structure.j = "array" THEN step.index
    ELSE CHOOSE i \in 1..Len(structure.names) : structure.names[i] = step.key

RECURSIVE StructureAt(_, _)
StructureAt(source, path) ==
    IF path = <<>> THEN source
    ELSE StructureAt(source.items[PositionOf(source, Head(path))], Tail(path))

RECURSIVE PutAt(_, _, _, _)
PutAt(source, path, key, value) ==
    IF path = <<>> THEN PutInto(source, key, value)
    ELSE [source EXCEPT
            !.items[PositionOf(source, Head(path))] = PutAt(@, Tail(path), key, value)]

\* setUncompressedObjectProperty: what it does to _uncompressedSource; a
\* structure nothing holds is changed out of sight
setUncompressedObjectProperty(c, currentUncompressedObject, parentStructure, objectKey) ==
    IF parentStructure = Undefined
    THEN IF TypeofObject(currentUncompressedObject)
         THEN [c EXCEPT !.uncompressedSource = currentUncompressedObject]
         ELSE c
    ELSE IF ~parentStructure[1].attached THEN c
    ELSE IF parentStructure[1].isArray
    THEN [c EXCEPT !.uncompressedSource =
                       PutAt(@, parentStructure[1].path, "", currentUncompressedObject)]
    ELSE IF objectKey # Undefined /\ objectKey[1] # ""
    THEN [c EXCEPT !.uncompressedSource =
                       PutAt(@, parentStructure[1].path, objectKey[1],
                             currentUncompressedObject)]
    ELSE c

\* setUncompressedObjectProperty: the structure it returns, as the new
\* context's currentUncompressedObject refers to it
ReturnedStructure(c, isArray, parentStructure, objectKey) ==
    IF parentStructure = Undefined THEN Reference(TRUE, isArray, <<>>)
    ELSE IF ~parentStructure[1].attached THEN Reference(FALSE, isArray, <<>>)
    ELSE IF parentStructure[1].isArray
    THEN Reference(TRUE, isArray,
             Append(parentStructure[1].path,
                    PathStep("", Len(StructureAt(c.uncompressedSource,
                                                 parentStructure[1].path).items) + 1)))
    ELSE IF objectKey # Undefined /\ objectKey[1] # ""
    THEN Reference(TRUE, isArray, Append(parentStructure[1].path, PathStep(objectKey[1], 0)))
    ELSE Reference(FALSE, isArray, <<>>)

\* this._ctx?.currentUncompressedObject and this._ctx?.currentKey
ParentStructure(c) ==
    IF c.ctx = Undefined THEN Undefined ELSE c.ctx[1].currentUncompressedObject

ParentKey(c) == IF c.ctx = Undefined THEN Undefined ELSE c.ctx[1].currentKey

setUncompressedObjectSimpleProperty(c, currentUncompressedData) ==
    setUncompressedObjectProperty(c, currentUncompressedData, ParentStructure(c),
                                  ParentKey(c))

\* the numerals without fraction
IntegerNumerals == {"0", "1", "2", "7"}

commitNumber(c, value) ==
    commitValue(setUncompressedObjectSimpleProperty(c, JSNumber(value)),
                makeValue(IF value \in IntegerNumerals THEN Tag.Integer ELSE Tag.Double, 0))

(***************************************************************************)
(* Inputs: the type graphs the lowering is run on.                         *)
(*                                                                         *)
(* TypeRefs 1..NumTypes are class / array types, TypeRef 1 is the top      *)
(* level.  renderTypes reads a type when it first dereferences it, and     *)
(* the description of a type not read before is drawn at that moment       *)
(* (Unread until then), so that only the reachable part of a graph is      *)
(* enumerated.  The other TypeRefs are leaves whose description is fixed.  *)
(***************************************************************************)
NameX == <<"x">>
NameXItem == <<"x", "I", "t", "e", "m">>
TopLevelNames == {<<"r">>}

\* the descriptions the terminal is drawn from; the last union has the top
\* level, a class or an array, as a member
TerminalMenu ==
    {LeafType("integer"), LeafType("any"), LeafType("date-time"),
     UnionType(<<IntegerRef, StringRef, NullRef>>),
     UnionType(<<IntegerRef, 1, StringRef>>)}

\* the descriptions type r is drawn from: a class of no, one or (the top
\* level) two properties, or an array; an edge of r leads to r itself
\* (classes), back to the top level, to one of the next two types or to
\* the terminal
TypeMenu(r, optName) ==
    LET fwd == {r + 1, r + 2} \cap (1..NumTypes)
        next == IF r + 1 <= NumTypes THEN r + 1 ELSE TerminalRef
        prop(n, t) == ClassProperty(n, t, n = optName)
    IN IF r = TerminalRef THEN TerminalMenu
       ELSE {ClassType(<<>>)}
            \cup {ClassType(<<prop(NameX, t)>>) : t \in fwd \cup {r, 1, TerminalRef}}
            \cup {ArrayType(t) : t \in fwd \cup {1, TerminalRef}}
            \cup (IF r = 1
                  THEN {ClassType(<<prop(NameX, next), prop(NameXItem, u)>>) :
                            u \in fwd \cup {r, TerminalRef}}
                  ELSE {})

VARIABLES
    optionalName,   \* the property name that is optional in the graph being drawn
    topLevels,      \* the names of the top levels of the type graph, in order
    inputObjects,   \* how many input objects emitSource is given
    xsdTypes,       \* the dictionaries XSDTypes holds
    inputObject,    \* the JSON document emitSource is given
    xmlString,      \* the document parseJSON returns
    xmlObject,      \* its object form
    json,           \* what parseXMLtoJSON returns
    currentPaths,   \* the calls of parseCurrentObject in parseJSON and in
                    \* parseXMLtoJSON, with currentPath in and after each
    call,           \* a call of a method on its own: the method and arguments
    returned,       \* what the call returned
    compressedJSON, \* the fields of the CompressedJSONFromStream
    stream          \* the tokens the Parser has not emitted yet

\* no call of parseCurrentObject yet
NoVisits == [parseJSON |-> <<>>, parseXMLtoJSON |-> <<>>]

\* no method is called on its own
NoCall == [method |-> ""]

inputVars == <<optionalName, topLevels, inputObjects, call, returned,
               compressedJSON, stream>>
convertVars == <<xsdTypes, inputObject, xmlString, xmlObject, json, currentPaths>>
allVars == <<vars, inputVars, convertVars>>

Init ==
    /\ optionalName \in {<<>>, NameX, NameXItem}
    /\ graph = [r \in 1..(NumTypes + 1) |-> Unread]
    /\ topLevelName \in TopLevelNames
    /\ topLevels = <<topLevelName>>
    /\ inputObjects = 1
    /\ rootSchema = renderBasicTypes
    /\ processedCustomTypes = <<>>
    /\ typeRefsByElementName = <<>>
    /\ callStack = <<RenderCall(1, 0, <<>>, topLevelName, NoAttrs, TRUE)>>
    /\ elementIndex = 1
    /\ prefixIndex = 0
    /\ failure = ""
    /\ pc = "renderTypes"
    /\ xsdTypes = NoTypes
    /\ inputObject = JSUndefined
    /\ xmlString = NoElement
    /\ xmlObject = JSUndefined
    /\ json = JSUndefined
    /\ currentPaths = NoVisits
    /\ call = NoCall
    /\ returned = NoCall
    /\ compressedJSON = NewCompressedJSON(FALSE)
    /\ stream = <<>>

CurrentLowerState ==
    LowerState(rootSchema, processedCustomTypes, typeRefsByElementName,
               callStack, failure)

\* emitSource, line 594: one renderTypes call of the lowering
RenderTypes ==
    /\ pc = "renderTypes"
    /\ callStack # <<>>
    /\ LET r == Head(callStack).t
       IN \E d \in (IF graph[r] = Unread
                    THEN TypeMenu(r, optionalName) ELSE {graph[r]}) :
            /\ graph' = [graph EXCEPT ![r] = d]
            /\ LET st == renderTypes(CurrentLowerState, graph')
               IN /\ rootSchema' = st.rootSchema
                  /\ processedCustomTypes' = st.processedCustomTypes
                  /\ typeRefsByElementName' = st.typeRefsByElementName
                  /\ failure' = st.failure
                  /\ callStack' = IF st.failure # "" THEN <<>> ELSE st.callStack
                  /\ pc' = IF st.failure # "" THEN "failed"
                           ELSE IF st.callStack # <<>> THEN "renderTypes"
                           ELSE IF st.typeRefsByElementName = <<>> THEN "done"
                           ELSE "renderElements"
    /\ UNCHANGED <<topLevelName, elementIndex, prefixIndex, inputVars, convertVars>>

MaxPrefixIndex == 4

\* emitSource, line 595: one pass of renderElements over the current tag
\* (the tag's only pass when it has one entry, else one do-while iteration)
RenderElements ==
    /\ pc = "renderElements"
    /\ elementIndex <= Len(typeRefsByElementName)
    /\ prefixIndex <= MaxPrefixIndex
    /\ LET elementKey == typeRefsByElementName[elementIndex].key
           elementData == typeRefsByElementName[elementIndex].entries
           success == Len(elementData) = 1
                      \/ PassSucceeds(elementData, elementKey, prefixIndex)
           keys == IF Len(elementData) = 1 THEN <<elementKey>>
                   ELSE CandidateKeys(elementData, elementKey, prefixIndex)
       IN IF success
          THEN /\ rootSchema' = renderSchemaElements(rootSchema,
                                    processedCustomTypes, elementData, keys)
               /\ elementIndex' = elementIndex + 1
               /\ prefixIndex' = 0
               /\ pc' = IF elementIndex = Len(typeRefsByElementName)
                        THEN "done" ELSE "renderElements"
          ELSE /\ prefixIndex' = prefixIndex + 1
               /\ UNCHANGED <<rootSchema, elementIndex, pc>>
    /\ UNCHANGED <<graph, topLevelName, processedCustomTypes,
                   typeRefsByElementName, callStack, failure, inputVars,
                   convertVars>>

Next == RenderTypes \/ RenderElements

Spec == Init /\ [][Next]_allVars

(***************************************************************************)
(* Inputs of the conversion: complete type graphs, as inferred from JSON   *)
(* (the top level is a class or an array), and the JSON documents that     *)
(* conform to them.                                                        *)
(***************************************************************************)
NameA == <<"a">>
NameB == <<"b">>
NameAB == <<"a", ".", "b">>
NameItem == <<"i", "t", "e", "m">>

\* the kinds the lowering maps to an XSD type
MappedKinds == DOMAIN mapPrimitiveKindToXSDTypes

\* the kinds the members of the unions are drawn from
UnionMemberKinds == {"integer", "string", "null", "bool"}

\* a class whose property a is a union of three primitive kinds, the
\* members in every order
UnionGraphs ==
    {<<ClassType(<<ClassProperty(NameA, 2, FALSE)>>), UnionType(<<3, 4, 5>>),
       LeafType(k[1]), LeafType(k[2]), LeafType(k[3])>> :
        k \in {m \in [1..3 -> UnionMemberKinds] :
                  \A i, j \in 1..3 : i # j => m[i] # m[j]}}

ConvertGraphs ==
    UnionGraphs \cup
    \* a class of a property of a kind renderTypes has no callback for, and
    \* an array of such a kind
    {<<ClassType(<<ClassProperty(NameA, 2, TRUE), ClassProperty(NameB, 3, FALSE)>>),
       LeafType(k), LeafType("string")>> : k \in NoCallbackKinds}
    \cup
    {<<ArrayType(2), LeafType(k)>> : k \in NoCallbackKinds}
    \cup
    \* a class of a required and an optional primitive property
    {<<ClassType(<<ClassProperty(NameA, 2, FALSE), ClassProperty(NameB, 3, TRUE)>>),
       LeafType(k), LeafType("string")>> : k \in MappedKinds}
    \cup
    \* an array of a primitive, as a property and as the top level
    {<<ClassType(<<ClassProperty(NameX, 2, FALSE)>>), ArrayType(3), LeafType(k)>> :
        k \in {"integer", "string", "any"}}
    \cup
    {<<ArrayType(2), LeafType("integer")>>,
     \* an array of classes at the top level
     <<ArrayType(2),
       ClassType(<<ClassProperty(NameA, 3, FALSE), ClassProperty(NameB, 4, TRUE)>>),
       LeafType("integer-string"), LeafType("bool")>>,
     \* a class in a class, an empty class
     <<ClassType(<<ClassProperty(NameA, 2, FALSE), ClassProperty(NameB, 3, FALSE)>>),
       ClassType(<<ClassProperty(NameA, 4, TRUE)>>), ClassType(<<>>), LeafType("double")>>,
     <<ClassType(<<>>)>>,
     \* an array of arrays
     <<ClassType(<<ClassProperty(NameX, 2, TRUE)>>), ArrayType(3), ArrayType(4),
       LeafType("bool-string")>>,
     \* a union of primitives
     <<ClassType(<<ClassProperty(NameA, 2, FALSE)>>), UnionType(<<3, 4, 5>>),
       LeafType("integer"), LeafType("string"), LeafType("null")>>,
     \* a class that holds itself
     <<ClassType(<<ClassProperty(NameX, 1, TRUE)>>)>>,
     \* classes under the tag item, one of them below x, and a class under
     \* the tag xItem
     <<ClassType(<<ClassProperty(NameX, 2, FALSE), ClassProperty(NameItem, 3, FALSE),
                   ClassProperty(NameXItem, 4, FALSE)>>),
       ClassType(<<ClassProperty(NameItem, 5, FALSE)>>),
       ClassType(<<ClassProperty(NameA, 6, FALSE)>>),
       ClassType(<<ClassProperty(NameB, 7, FALSE)>>),
       ClassType(<<>>), LeafType("integer"), LeafType("string")>>,
     \* a property whose name holds a dot
     <<ClassType(<<ClassProperty(NameAB, 2, FALSE), ClassProperty(NameB, 3, FALSE)>>),
       LeafType("integer"), LeafType("string")>>}

\* longest array of a document
MaxArrayLen == 2

\* the values of a primitive kind that documents are built from
LeafValues(kind) ==
    CASE kind = "integer" -> {JSNumber("1"), JSNumber("2")}
      [] kind = "double" -> {JSNumber("1.5")}
      [] kind = "string" -> {JSString("s"), JSString(""), JSString("7")}
      [] kind = "bool" -> {JSBoolean("true"), JSBoolean("false")}
      [] kind = "null" -> {JSNull}
      [] kind = "integer-string" -> {JSString("7"), JSString("007")}
      [] kind = "bool-string" -> {JSString("true")}
      [] kind = "date" -> {JSString(s) : s \in DateStrings}
      [] kind = "time" -> {JSString(s) : s \in TimeStrings}
      [] kind = "date-time" -> {JSString("2020-02-01T10:30:00Z")}
      [] kind = "uri" -> {JSString(s) : s \in URIStrings}
      [] OTHER -> {}

RECURSIVE Documents(_, _)
RECURSIVE ClassDocuments(_, _, _)

\* the entries a class value may hold for its properties from the i-th on
ClassDocuments(g, props, i) ==
    IF i > Len(props) THEN {[names |-> <<>>, items |-> <<>>]}
    ELSE LET rest == ClassDocuments(g, props, i + 1)
         IN {[names |-> <<props[i].name>> \o d.names, items |-> <<v>> \o d.items] :
                v \in Documents(g, props[i].type), d \in rest}
            \cup (IF props[i].isOptional THEN rest ELSE {})

\* the JSON values that conform to type r of graph g
Documents(g, r) ==
    LET t == TypeOf(g, r)
    IN CASE t.kind = "class" ->
              {JSObject(d.names, d.items) : d \in ClassDocuments(g, t.props, 1)}
         [] t.kind = "array" ->
              {JSArray(s) : s \in UNION {[1..n -> Documents(g, t.items)] :
                                            n \in 0..MaxArrayLen}}
         [] t.kind = "union" ->
              UNION {Documents(g, t.members[i]) : i \in 1..Len(t.members)}
         [] OTHER -> LeafValues(t.kind)

(***************************************************************************)
(* emitSource after the lowering: XSDTypes, parseJSON, convert,            *)
(* parseXMLtoJSON                                                          *)
(***************************************************************************)
InitConvert ==
    /\ optionalName = <<>>
    /\ graph \in ConvertGraphs
    /\ topLevelName \in TopLevelNames
    /\ topLevels = <<topLevelName>>
    /\ inputObjects = 1
    /\ rootSchema = renderBasicTypes
    /\ processedCustomTypes = <<>>
    /\ typeRefsByElementName = <<>>
    /\ callStack = <<RenderCall(1, 0, <<>>, topLevelName, NoAttrs, TRUE)>>
    /\ elementIndex = 1
    /\ prefixIndex = 0
    /\ failure = ""
    /\ pc = "renderTypes"
    /\ xsdTypes = NoTypes
    /\ inputObject = JSUndefined
    /\ xmlString = NoElement
    /\ xmlObject = JSUndefined
    /\ json = JSUndefined
    /\ currentPaths = NoVisits
    /\ call = NoCall
    /\ returned = NoCall
    /\ compressedJSON = NewCompressedJSON(FALSE)
    /\ stream = <<>>

\* what the steps after the lowering leave alone
loweredVars == <<graph, topLevelName, rootSchema, processedCustomTypes,
                 typeRefsByElementName, callStack, elementIndex, prefixIndex,
                 inputVars>>

\* emitSource, lines 599-602: new XSDTypes(toXMLObjectFromString(xsdString))
BuildXSDTypes ==
    /\ pc = "done"
    /\ IF FetchTagFails(rootSchema) \/ NewXSDTypes(rootSchema).overflow
       THEN /\ pc' = "failed"
            /\ failure' = "internal-error"
            /\ UNCHANGED xsdTypes
       ELSE /\ pc' = "parseJSON"
            /\ xsdTypes' = NewXSDTypes(rootSchema)
            /\ UNCHANGED failure
    /\ UNCHANGED <<loweredVars, inputObject, xmlString, xmlObject, json, currentPaths>>

\* emitSource, line 605: parseJSON on an input document out of the given ones
ParseJSONOf(documents) ==
    /\ pc = "parseJSON"
    /\ \E document \in documents :
          /\ inputObject' = document
          /\ LET built == parseJSON(document, xsdTypes, topLevelName)
             IN IF built.ok
                THEN /\ xmlString' = built.node
                     /\ currentPaths' = [currentPaths EXCEPT !.parseJSON = built.visits]
                     /\ pc' = "convert"
                     /\ UNCHANGED failure
                ELSE /\ pc' = "failed"
                     /\ failure' = "malformed-input"
                     /\ UNCHANGED <<xmlString, currentPaths>>
    /\ UNCHANGED <<loweredVars, xsdTypes, xmlObject, json>>

\* the input document conforms to the type graph, as one it was inferred from
ParseJSON == ParseJSONOf(Documents(graph, 1))

\* emitSource, line 606: convert(xmlString, { format: 'object' })
Convert ==
    /\ pc = "convert"
    /\ xmlObject' = toXMLObjectFromString(xmlString)
    /\ pc' = "parseXMLtoJSON"
    /\ UNCHANGED <<loweredVars, failure, xsdTypes, inputObject, xmlString, json,
                   currentPaths>>

\* emitSource, line 607: parseXMLtoJSON on the re-read document
ParseXMLtoJSON ==
    /\ pc = "parseXMLtoJSON"
    /\ LET parsed == parseXMLtoJSON(xmlObject, xsdTypes)
       IN IF parsed.ok
          THEN /\ json' = parsed.value
               /\ currentPaths' = [currentPaths EXCEPT !.parseXMLtoJSON = parsed.visits]
               /\ pc' = "converted"
               /\ UNCHANGED failure
          ELSE /\ pc' = "failed"
               /\ failure' = "malformed-input"
               /\ UNCHANGED <<json, currentPaths>>
    /\ UNCHANGED <<loweredVars, xsdTypes, inputObject, xmlString, xmlObject>>

NextConvert ==
    RenderTypes \/ RenderElements \/ BuildXSDTypes \/ ParseJSON \/ Convert
        \/ ParseXMLtoJSON

SpecConvert == InitConvert /\ [][NextConvert]_allVars

(***************************************************************************)
(* emitSource from its first statement: any number of top levels and of    *)
(* input objects.  The first top level is TypeRef 1 of the graph.          *)
(***************************************************************************)
NameS == <<"s">>

\* most top levels, and most input objects, of a run
MaxTopLevels == 2

\* the orders in which at most MaxTopLevels distinct names are top levels
TopLevelsMenu ==
    {t \in UNION {[1..n -> {<<"r">>, NameS}] : n \in 0..MaxTopLevels} :
        \A i, j \in 1..Len(t) : i # j => t[i] # t[j]}

InitEmit ==
    /\ optionalName = <<>>
    /\ graph \in ConvertGraphs
    /\ topLevels \in TopLevelsMenu
    /\ inputObjects \in 0..MaxTopLevels
    /\ topLevelName = <<>>
    /\ rootSchema = renderBasicTypes
    /\ processedCustomTypes = <<>>
    /\ typeRefsByElementName = <<>>
    /\ callStack = <<>>
    /\ elementIndex = 1
    /\ prefixIndex = 0
    /\ failure = ""
    /\ pc = "emitSource"
    /\ xsdTypes = NoTypes
    /\ inputObject = JSUndefined
    /\ xmlString = NoElement
    /\ xmlObject = JSUndefined
    /\ json = JSUndefined
    /\ currentPaths = NoVisits
    /\ call = NoCall
    /\ returned = NoCall
    /\ compressedJSON = NewCompressedJSON(FALSE)
    /\ stream = <<>>

\* a guard that forgets the input objects
NotImplementedTopLevelsOnly(levels, objects) == Len(levels) # 1

\* emitSource, line 587
NotImplemented(levels, objects) == Len(levels) # 1 \/ objects # 1

\* emitSource, lines 587-594: the guard, then the first renderTypes call is
\* made on the first top level
EmitSource ==
    /\ pc = "emitSource"
    /\ IF NotImplemented(topLevels, inputObjects)
       THEN /\ pc' = "failed"
            /\ failure' = "not-implemented"
            /\ UNCHANGED <<topLevelName, callStack>>
       ELSE /\ topLevelName' = topLevels[1]
            /\ callStack' = <<RenderCall(1, 0, <<>>, topLevels[1], NoAttrs, TRUE)>>
            /\ pc' = "renderTypes"
            /\ UNCHANGED failure
    /\ UNCHANGED <<graph, rootSchema, processedCustomTypes,
                   typeRefsByElementName, elementIndex, prefixIndex,
                   inputVars, convertVars>>

NextEmit == EmitSource \/ NextConvert

SpecEmit == InitEmit /\ [][NextEmit]_allVars


(***************************************************************************)
(* parseJSON on documents that need not conform to the type graph: the     *)
(* conforming ones, and those that differ from a conforming one at one     *)
(* position, where a required property is absent or a value of another     *)
(* JavaScript type stands.                                                 *)
(***************************************************************************)
WrongValues ==
    {JSArray(<<>>), JSArray(<<JSNumber("1")>>), JSObject(<<>>, <<>>),
     JSObject(<<NameA>>, <<JSNumber("1")>>), JSNumber("1"), JSString("s"),
     JSBoolean("true"), JSNull}

RECURSIVE NearMisses(_, _)
RECURSIVE ClassNearMisses(_, _, _)

\* the entries of a class value, from the i-th property on, of which one is
\* wrong: absent though required, or holding a near miss of its type
ClassNearMisses(g, props, i) ==
    IF i > Len(props) THEN {}
    ELSE LET rest == ClassDocuments(g, props, i + 1)
             restWrong == ClassNearMisses(g, props, i + 1)
             with(V, D) ==
                 {[names |-> <<props[i].name>> \o d.names,
                   items |-> <<v>> \o d.items] : v \in V, d \in D}
         IN with(NearMisses(g, props[i].type), rest)
            \cup with(Documents(g, props[i].type), restWrong)
            \cup (IF props[i].isOptional THEN restWrong ELSE rest)

\* the values that miss type r of graph g at one position
NearMisses(g, r) ==
    LET t == TypeOf(g, r)
    IN CASE t.kind = "class" ->
              WrongValues
              \cup {JSObject(d.names, d.items) : d \in ClassNearMisses(g, t.props, 1)}
         [] t.kind = "array" ->
              WrongValues
              \cup {JSArray([s EXCEPT ![k] = m]) :
                       s \in UNION {[1..n -> Documents(g, t.items)] :
                                       n \in 1..MaxArrayLen},
                       k \in 1..MaxArrayLen, m \in NearMisses(g, t.items)}
         [] OTHER -> WrongValues

ParseAnyJSON == ParseJSONOf(Documents(graph, 1) \cup NearMisses(graph, 1))

NextAny ==
    RenderTypes \/ RenderElements \/ BuildXSDTypes \/ ParseAnyJSON \/ Convert
        \/ ParseXMLtoJSON

SpecAny == InitConvert /\ [][NextAny]_allVars

(***************************************************************************)
(* XML documents that were not written by parseJSON.                       *)
(* toXMLObjectFromFile hands any document of a file to parseXMLtoJSON; the *)
(* documents drawn are those parseJSON wrote with one child added, dropped *)
(* or replaced under the top-level element.                                *)
(***************************************************************************)
NameZ == <<"z">>

\* the entries of an XML object without the i-th
WithoutEntry(object, i) ==
    JSObject(SubSeq(object.names, 1, i - 1)
                 \o SubSeq(object.names, i + 1, Len(object.names)),
             SubSeq(object.items, 1, i - 1)
                 \o SubSeq(object.items, i + 1, Len(object.items)))

XMLVariants(object) ==
    LET children == {i \in 1..Len(object.names) : Head(object.names[i]) # "@"}
    IN {object,
        JSObject(Append(object.names, NameZ), Append(object.items, JSString("1")))}
       \cup {WithoutEntry(object, i) : i \in children}
       \cup {JSObject(object.names, [object.items EXCEPT ![i] = JSString("x")]) :
                i \in children}

\* toXMLObjectFromFile: the document of a file, converted to an object
ToXMLObjectFromFile ==
    /\ pc = "convert"
    /\ \E data \in XMLVariants(ToXMLObject(xmlString)) :
          xmlObject' = JSObject(<<xmlString.tag>>, <<data>>)
    /\ pc' = "parseXMLtoJSON"
    /\ UNCHANGED <<loweredVars, failure, xsdTypes, inputObject, xmlString, json,
                   currentPaths>>

NextXML ==
    RenderTypes \/ RenderElements \/ BuildXSDTypes \/ ParseJSON \/ Convert
        \/ ToXMLObjectFromFile \/ ParseXMLtoJSON

SpecXML == InitConvert /\ [][NextXML]_allVars

(***************************************************************************)
(* Methods called on their own: XSDSchemaWrapper.ele and the coercions of  *)
(* XSDTypes, on arguments of every shape                                   *)
(***************************************************************************)
\* the renderer is not run
NoRenderer ==
    /\ optionalName = <<>>
    /\ graph = <<>>
    /\ topLevelName = <<>>
    /\ topLevels = <<>>
    /\ inputObjects = 0
    /\ rootSchema = <<>>
    /\ processedCustomTypes = <<>>
    /\ typeRefsByElementName = <<>>
    /\ callStack = <<>>
    /\ elementIndex = 1
    /\ prefixIndex = 0
    /\ failure = ""
    /\ xsdTypes = NoTypes
    /\ inputObject = JSUndefined
    /\ xmlString = NoElement
    /\ xmlObject = JSUndefined
    /\ json = JSUndefined
    /\ currentPaths = NoVisits

MethodCall(method, name, attributes, value, kind) ==
    [method |-> method, name |-> name, attributes |-> attributes,
     value |-> value, kind |-> kind]

EleNames == {"element", "simpleType"}
AttributeKeys == {"base", "type", "name", "memberTypes"}
AttributeValues ==
    supportedBaseTypes \cup {"complexType1", "dateType", "xsd:string", "String"}

\* longest attribute list ele is given
MaxAttributes == 2

EleAttributes ==
    {a \in UNION {[1..n -> [key : AttributeKeys, value : AttributeValues]] :
                     n \in 0..MaxAttributes} :
        \A i, j \in 1..Len(a) : i # j => a[i].key # a[j].key}

EleCalls ==
    {MethodCall("ele", n, a, JSUndefined, "") : n \in EleNames, a \in EleAttributes}

CoercionValues ==
    WrongValues \cup {JSUndefined, JSString(""), JSString("7"), JSString("true"),
                      JSBoolean("false"), JSNumber("1.5")}

CoercionCalls ==
    {MethodCall(m, "", <<>>, v, k) :
        m \in {"getPrimitiveKindXMLValue", "getPrimitiveKindJSONValue"},
        v \in CoercionValues, k \in PrimitiveTypeKinds}

InitCalls ==
    /\ NoRenderer
    /\ pc = "call"
    /\ call \in EleCalls \cup CoercionCalls
    /\ returned = NoCall
    /\ compressedJSON = NewCompressedJSON(FALSE)
    /\ stream = <<>>

Ele ==
    /\ pc = "call"
    /\ call.method = "ele"
    /\ returned' = ele(call.name, call.attributes)
    /\ pc' = "returned"
    /\ UNCHANGED <<graph, topLevelName, rootSchema, processedCustomTypes,
                   typeRefsByElementName, callStack, elementIndex, prefixIndex,
                   failure, optionalName, topLevels, inputObjects, call, compressedJSON,
                   stream, convertVars>>

GetPrimitiveKindXMLValue ==
    /\ pc = "call"
    /\ call.method = "getPrimitiveKindXMLValue"
    /\ returned' = getPrimitiveKindXMLValue(call.value, call.kind)
    /\ pc' = "returned"
    /\ UNCHANGED <<graph, topLevelName, rootSchema, processedCustomTypes,
                   typeRefsByElementName, callStack, elementIndex, prefixIndex,
                   failure, optionalName, topLevels, inputObjects, call, compressedJSON,
                   stream, convertVars>>

GetPrimitiveKindJSONValue ==
    /\ pc = "call"
    /\ call.method = "getPrimitiveKindJSONValue"
    /\ returned' = getPrimitiveKindJSONValue(call.value, call.kind)
    /\ pc' = "returned"
    /\ UNCHANGED <<graph, topLevelName, rootSchema, processedCustomTypes,
                   typeRefsByElementName, callStack, elementIndex, prefixIndex,
                   failure, optionalName, topLevels, inputObjects, call, compressedJSON,
                   stream, convertVars>>

NextCalls == Ele \/ GetPrimitiveKindXMLValue \/ GetPrimitiveKindJSONValue

SpecCalls == InitCalls /\ [][NextCalls]_allVars

(***************************************************************************)
(* CompressedJSONFromStream.parse: the Parser of stream-json emits the     *)
(* tokens of a JSON document one at a time, the data handler calls the     *)
(* method methodMap names for the token, and the end handler calls finish. *)
(* What inferTransformedStringTypeKindForString returns for a string is    *)
(* left open.                                                              *)
(***************************************************************************)
Token(name, value) == [name |-> name, value |-> value]

\* the chunks a number arrives in
NumberChunks == [n \in {"2", "1.5"} |-> IF n = "2" THEN <<"2">> ELSE <<"1.", "5">>]

RECURSIVE Tokens(_)
RECURSIVE EntryTokens(_, _)

\* the tokens of the entries of an object or array from the i-th on
EntryTokens(value, i) ==
    IF i > Len(value.items) THEN <<>>
    ELSE (IF value.j = "object" THEN <<Token("keyValue", value.names[i])>> ELSE <<>>)
         \o Tokens(value.items[i]) \o EntryTokens(value, i + 1)

\* the tokens of a JSON value, in document order
Tokens(value) ==
    CASE value.j = "object" ->
            <<Token("startObject", "")>> \o EntryTokens(value, 1)
                \o <<Token("endObject", "")>>
      [] value.j = "array" ->
            <<Token("startArray", "")>> \o EntryTokens(value, 1)
                \o <<Token("endArray", "")>>
      [] value.j = "number" ->
            <<Token("startNumber", "")>>
                \o [k \in 1..Len(NumberChunks[value.text]) |->
                        Token("numberChunk", NumberChunks[value.text][k])]
                \o <<Token("endNumber", "")>>
      [] value.j = "string" -> <<Token("stringValue", value.text)>>
      [] value.j = "null" -> <<Token("nullValue", "")>>
      [] OTHER -> <<Token(value.text \o "Value", value.text)>>

StreamKeys == {"a", ""}
StreamLeaves ==
    {JSNull, JSBoolean("true"), JSBoolean("false"), JSNumber("2"), JSString("s")}

\* the objects and arrays of at most MaxArrayLen entries drawn from values
Structures(values) ==
    {JSArray(items) : items \in UNION {[1..n -> values] : n \in 0..MaxArrayLen}}
    \cup UNION {{JSObject(names, items) : items \in [1..Len(names) -> values]} :
                  names \in {k \in UNION {[1..n -> StreamKeys] : n \in 0..MaxArrayLen} :
                                \A i, j \in 1..Len(k) : i # j => k[i] # k[j]}}

\* JSON documents whose root is an object or an array
StreamDocuments == Structures(StreamLeaves \cup Structures({JSNumber("1.5")}))

\* the formats inferTransformedStringTypeKindForString may answer
InferredFormats == {Undefined, Some("date")}

InitStream ==
    /\ NoRenderer
    /\ pc = "parse"
    /\ \E document \in StreamDocuments :
          /\ call = MethodCall("parse", "", <<>>, document, "")
          /\ stream = Tokens(document)
    /\ returned = NoCall
    /\ compressedJSON \in {NewCompressedJSON(handleRefs) : handleRefs \in BOOLEAN}

\* a method called by the data handler has returned, or has panicked
Called(c) ==
    /\ compressedJSON' = c
    /\ stream' = Tail(stream)
    /\ pc' = IF c.panic # "" THEN "failed" ELSE pc
    /\ UNCHANGED <<graph, topLevelName, rootSchema, processedCustomTypes,
                   typeRefsByElementName, callStack, elementIndex, prefixIndex,
                   failure, optionalName, topLevels, inputObjects, call, returned,
                   convertVars>>

\* the data handler is given a token that methodMap maps to the method
OnData(names) == pc = "parse" /\ stream # <<>> /\ Head(stream).name \in names

PushObjectContext ==
    /\ OnData({"startObject"})
    /\ LET parentStructure == ParentStructure(compressedJSON)
           objectKey == ParentKey(compressedJSON)
           pushed == pushContext(compressedJSON)
           set == setUncompressedObjectProperty(pushed, JSObject(<<>>, <<>>),
                                                parentStructure, objectKey)
       IN Called([set EXCEPT
                    !.ctx[1].currentObject = Some(<<>>),
                    !.ctx[1].currentUncompressedObject =
                        Some(ReturnedStructure(pushed, FALSE, parentStructure,
                                               objectKey))])

PushArrayContext ==
    /\ OnData({"startArray"})
    /\ LET parentStructure == ParentStructure(compressedJSON)
           arrayKey == ParentKey(compressedJSON)
           pushed == pushContext(compressedJSON)
           set == setUncompressedObjectProperty(pushed, JSArray(<<>>),
                                                parentStructure, arrayKey)
       IN Called([set EXCEPT
                    !.ctx[1].currentArray = Some(<<>>),
                    !.ctx[1].currentUncompressedObject =
                        Some(ReturnedStructure(pushed, TRUE, parentStructure,
                                               arrayKey))])

SetPropertyKey ==
    /\ OnData({"keyValue"})
    /\ Called(IF compressedJSON.ctx = Undefined
              THEN Panicked(compressedJSON, "defined")
              ELSE [compressedJSON EXCEPT
                      !.ctx[1].currentKey = Some(Head(stream).value)])

FinishObject ==
    /\ OnData({"endObject"})
    /\ LET c == compressedJSON
           popped == popContext(c)
       IN Called(IF c.ctx = Undefined THEN Panicked(c, "defined")
                 ELSE IF c.ctx[1].currentObject = Undefined
                 THEN Panicked(c, "Object ended but not started")
                 ELSE commitValue([popped EXCEPT
                                     !.objects = Append(@, c.ctx[1].currentObject[1])],
                                  makeValue(Tag.Object, Len(c.objects))))

FinishArray ==
    /\ OnData({"endArray"})
    /\ LET c == compressedJSON
           popped == popContext(c)
       IN Called(IF c.ctx = Undefined THEN Panicked(c, "defined")
                 ELSE IF c.ctx[1].currentArray = Undefined
                 THEN Panicked(c, "Array ended but not started")
                 ELSE commitValue([popped EXCEPT
                                     !.arrays = Append(@, c.ctx[1].currentArray[1])],
                                  makeValue(Tag.Array, Len(c.arrays))))

CommitNull ==
    /\ OnData({"nullValue"})
    /\ Called(commitValue(setUncompressedObjectSimpleProperty(compressedJSON, JSNull),
                          makeValue(Tag.Null, 0)))

\* handleBooleanValue: commitBoolean
HandleBooleanValue ==
    /\ OnData({"trueValue", "falseValue"})
    /\ Called(commitValue(
           setUncompressedObjectSimpleProperty(compressedJSON,
                                               JSBoolean(Head(stream).value)),
           makeValue(Tag.Boolean, 0)))

CommitString ==
    /\ OnData({"stringValue"})
    /\ \E format \in InferredFormats :
          LET s == Head(stream).value
              c == setUncompressedObjectSimpleProperty(compressedJSON, JSString(s))
              isExpectingRef == c.ctx # Undefined /\ c.ctx[1].currentKey = Some("$ref")
              interned == IF c.handleRefs /\ isExpectingRef THEN s
                          ELSE IF format # Undefined THEN format[1]
                          ELSE s
              tag == IF ~(c.handleRefs /\ isExpectingRef) /\ format # Undefined
                     THEN Tag.StringFormat ELSE Tag.InternedString
          IN Called(commitValue([c EXCEPT !.strings = InternedStrings(@, interned)],
                                makeValue(tag, internString(c.strings, interned))))

HandleStartNumber ==
    /\ OnData({"startNumber"})
    /\ Called(IF compressedJSON.ctx = Undefined
              THEN Panicked(compressedJSON, "defined")
              ELSE [compressedJSON EXCEPT !.ctx[1].currentNumberChunk = Some("")])

HandleNumberChunk ==
    /\ OnData({"numberChunk"})
    /\ Called(IF compressedJSON.ctx = Undefined
              THEN Panicked(compressedJSON, "defined")
              ELSE [compressedJSON EXCEPT
                      !.ctx[1].currentNumberChunk[1] = @ \o Head(stream).value])

HandleEndNumber ==
    /\ OnData({"endNumber"})
    /\ LET c == compressedJSON
       IN Called(IF c.ctx = Undefined \/ c.ctx[1].currentNumberChunk = Undefined
                 THEN Panicked(c, "defined")
                 ELSE commitNumber([c EXCEPT !.ctx[1].currentNumberChunk = Undefined],
                                   ToNumber(JSString(c.ctx[1].currentNumberChunk[1]))))

\* the end handler: resolve(this.finish())
Finish ==
    /\ pc = "parse"
    /\ stream = <<>>
    /\ LET c == compressedJSON
       IN IF c.rootValue = Undefined
          THEN /\ compressedJSON' = Panicked(c, "Finished without root document")
               /\ pc' = "failed"
               /\ UNCHANGED returned
          ELSE IF c.ctx # Undefined \/ c.contextStack # <<>>
          THEN /\ compressedJSON' = Panicked(c, "Finished with contexts present")
               /\ pc' = "failed"
               /\ UNCHANGED returned
          ELSE /\ compressedJSON' = [c EXCEPT !.rootValue = Undefined]
               /\ returned' = c.rootValue[1]
               /\ pc' = "finished"
    /\ UNCHANGED <<graph, topLevelName, rootSchema, processedCustomTypes,
                   typeRefsByElementName, callStack, elementIndex, prefixIndex,
                   failure, optionalName, topLevels, inputObjects, call, stream,
                   convertVars>>

NextStream ==
    PushObjectContext \/ PushArrayContext \/ SetPropertyKey \/ FinishObject
        \/ FinishArray \/ CommitNull \/ HandleBooleanValue \/ CommitString
        \/ HandleStartNumber \/ HandleNumberChunk \/ HandleEndNumber \/ Finish

SpecStream == InitStream /\ [][NextStream]_allVars

(***************************************************************************)
(* Properties of the lowering                                              *)
(***************************************************************************)
IsTypeDefinition(node) == node.tag \in {"complexType", "simpleType"}

LibraryTypeNames == {renderBasicTypes[i].name : i \in 1..Len(renderBasicTypes)}

\* positions under the schema root that define a type of the given name
DefinitionsOf(schema, name) ==
    {i \in 1..Len(schema) : IsTypeDefinition(schema[i]) /\ schema[i].name = name}

\* positions of the definitions the lowering added to the library
CustomDefinitions(schema) ==
    {i \in 1..Len(schema) :
        IsTypeDefinition(schema[i]) /\ schema[i].name \notin LibraryTypeNames}

\* the definition of a processed type
DefinitionOf(r) ==
    rootSchema[CHOOSE i \in 1..Len(rootSchema) :
                   /\ IsTypeDefinition(rootSchema[i])
                   /\ rootSchema[i].name = processedCustomTypes[r]]

LoweringEnded == pc \in {"renderElements", "done"}

Processed(kind) ==
    {r \in DOMAIN processedCustomTypes : TypeOf(graph, r).kind = kind}

\* keys under which typeRefsByElementName holds the reference
KeysOf(r) ==
    {i \in 1..Len(typeRefsByElementName) :
        \E j \in 1..Len(typeRefsByElementName[i].entries) :
            typeRefsByElementName[i].entries[j].typeRef = r}

\* C2: the names in processedCustomTypes are pairwise distinct and are exactly
\* complexType1 .. complexTypeN, N the number of references processed, and
\* the reference a step adds gets the number after those already there
C2_NamesNumberedInVisitOrder ==
    /\ [](/\ \A r1, r2 \in DOMAIN processedCustomTypes :
                r1 # r2 => processedCustomTypes[r1] # processedCustomTypes[r2]
          /\ {processedCustomTypes[r] : r \in DOMAIN processedCustomTypes}
                = {"complexType" \o ToString(n) :
                      n \in 1..Cardinality(DOMAIN processedCustomTypes)})
    /\ [][\A r \in DOMAIN processedCustomTypes' \ DOMAIN processedCustomTypes :
            processedCustomTypes'[r] =
                "complexType" \o
                    ToString(Cardinality(DOMAIN processedCustomTypes) + 1)]_allVars

C2_Witness ==
    /\ pc = "done"
    /\ Cardinality(DOMAIN processedCustomTypes) >= 4
    /\ Processed("class") # {} /\ Processed("array") # {} /\ Processed("union") # {}

\* C3: an entry of processedCustomTypes is never changed or removed, and the
\* schema root holds exactly one definition per processed reference and no
\* other, whatever the number of keys the reference was met under
C3_ProcessedMonotone ==
    /\ [][\A r \in DOMAIN processedCustomTypes :
            /\ r \in DOMAIN processedCustomTypes'
            /\ processedCustomTypes'[r] = processedCustomTypes[r]]_allVars
    /\ [](/\ \A r \in DOMAIN processedCustomTypes :
                Cardinality(DefinitionsOf(rootSchema, processedCustomTypes[r])) = 1
          /\ Cardinality(CustomDefinitions(rootSchema))
                = Cardinality(DOMAIN processedCustomTypes))

C3_Witness ==
    /\ pc = "done"
    /\ \E r \in DOMAIN processedCustomTypes : Cardinality(KeysOf(r)) >= 2

\* the lowering's measure: references not yet processed, then pending calls
Unprocessed == Cardinality((1..(NumTypes + 1)) \ DOMAIN processedCustomTypes)

\* C4: every renderTypes call makes the measure (unprocessed references,
\* pending calls) smaller, so the lowering ends on every graph; a call on a
\* processed reference adds the referencing element at the child position
\* and nothing else: no definition, no further call
C4_LoweringTerminates ==
    [][pc = "renderTypes" =>
        LET c == Head(callStack)
        IN /\ \/ Unprocessed' < Unprocessed
              \/ Unprocessed' = Unprocessed /\ Len(callStack') < Len(callStack)
           /\ c.t \in DOMAIN processedCustomTypes =>
                /\ callStack' = Tail(callStack)
                /\ processedCustomTypes' = processedCustomTypes
                /\ rootSchema' =
                     IF c.schema = 0 THEN rootSchema
                     ELSE [rootSchema EXCEPT ![c.schema].elements =
                             Append(@, ElementNode(c.key, processedCustomTypes[c.t],
                                                   c.additionalAttrs))]]_allVars

\* a class that has itself as a property, or an array met again below
\* itself, was lowered and the lowering ended
C4_Witness ==
    /\ LoweringEnded
    /\ \E r \in Processed("class") :
          \E i \in 1..Len(graph[r].props) : graph[r].props[i].type = r
    /\ \E r \in Processed("array") : r # 1 /\ graph[r].items = 1

(***************************************************************************)
(* Properties of renderElements                                            *)
(***************************************************************************)
\* length of the longest prefix chain of a tag's entries; from the index
\* MaxChain - 1 on every entry's candidate stays what it is
MaxChain(elementData) ==
    IF elementData = <<>> THEN 0
    ELSE CHOOSE n \in {Len(elementData[j].elementPrefixes) : j \in 1..Len(elementData)} :
            \A j \in 1..Len(elementData) : Len(elementData[j].elementPrefixes) <= n

\* C5: when renderElements starts, every tag recorded with several entries
\* has a prefix index at which the candidate names are pairwise distinct
C5_RetryLoopEnds ==
    pc = "renderElements" =>
        \A i \in 1..Len(typeRefsByElementName) :
            LET elementData == typeRefsByElementName[i].entries
            IN Len(elementData) > 1 =>
                 \E idx \in 0..MaxChain(elementData) :
                    PassSucceeds(elementData, typeRefsByElementName[i].key, idx)

\* the top-level element declarations, in document order
TopLevelElements(schema) == SelectSeq(schema, LAMBDA node : node.tag = "element")

RECURSIVE EntriesBefore(_, _)
\* number of entries recorded under the tags before the k-th
EntriesBefore(byName, k) ==
    IF k <= 1 THEN 0
    ELSE EntriesBefore(byName, k - 1) + Len(byName[k - 1].entries)

\* the declarations renderElements emitted for the k-th tag
DeclarationsFor(k) ==
    LET n == Len(typeRefsByElementName[k].entries)
        first == EntriesBefore(typeRefsByElementName, k) + 1
    IN SubSeq(TopLevelElements(rootSchema), first, first + n - 1)

\* name.toLowerCase().endsWith(tag.toLowerCase())
EndsWithIgnoringCase(name, tag) ==
    /\ Len(name) >= Len(tag)
    /\ \A i \in 1..Len(tag) :
          ToLowerCase(name[Len(name) - Len(tag) + i]) = ToLowerCase(tag[i])

\* C6: after renderElements the schema root holds, for every tag recorded
\* with n references, exactly n element declarations; their names end in the
\* tag, case ignored, and their types are pairwise distinct
C6_DeclarationsPerTag ==
    pc = "done" =>
        /\ Len(TopLevelElements(rootSchema))
              = EntriesBefore(typeRefsByElementName, Len(typeRefsByElementName) + 1)
        /\ \A k \in 1..Len(typeRefsByElementName) :
              LET decl == DeclarationsFor(k)
                  tag == typeRefsByElementName[k].key
                  entries == typeRefsByElementName[k].entries
              IN /\ Len(decl) = Len(entries)
                 /\ \A i, j \in 1..Len(entries) :
                       i # j => entries[i].typeRef # entries[j].typeRef
                 /\ \A j \in 1..Len(decl) : EndsWithIgnoringCase(decl[j].key, tag)
                 /\ \A i, j \in 1..Len(decl) : i # j => decl[i].type # decl[j].type

\* a tag with three references was resolved after a failed pass
C6_Witness ==
    /\ pc = "done"
    /\ \E k \in 1..Len(typeRefsByElementName) :
          LET entries == typeRefsByElementName[k].entries
          IN /\ Len(entries) >= 3
             /\ ~PassSucceeds(entries, typeRefsByElementName[k].key, 0)

(***************************************************************************)
(* Properties of the emitted definitions                                   *)
(***************************************************************************)
\* names a type attribute resolves to: the definitions under the schema
\* root and the names of the primitive mapping
ResolvableTypeNames ==
    {rootSchema[i].name : i \in {j \in 1..Len(rootSchema) : IsTypeDefinition(rootSchema[j])}}
        \cup PrimitiveXSDTypeNames

\* the XSD type name that stands for a lowered type
XSDTypeNameOf(r) ==
    LET kind == TypeOf(graph, r).kind
    IN IF kind \in DOMAIN mapPrimitiveKindToXSDTypes THEN mapPrimitiveKindToXSDTypes[kind]
       ELSE IF r \in DOMAIN processedCustomTypes THEN processedCustomTypes[r]
       ELSE ""

\* the element of a class definition that renders one property as the
\* claim describes it
PropertyElementOk(elements, prop, resolvable) ==
    LET at == {j \in 1..Len(elements) : elements[j].key = prop.name}
    IN /\ Cardinality(at) = 1
       /\ \A j \in at :
             /\ elements[j].tag = "element"
             /\ elements[j].type \in resolvable
             /\ elements[j].type = XSDTypeNameOf(prop.type)
             /\ (elements[j].minOccurs = "0") <=> prop.isOptional

PropsOf(r) == {graph[r].props[i] : i \in 1..Len(graph[r].props)}

\* C7 as stated: every property of every lowered class has its element
C7_ElementPerProperty ==
    LoweringEnded =>
        LET resolvable == ResolvableTypeNames
        IN \A r \in Processed("class") :
              LET definition == DefinitionOf(r)
              IN /\ definition.inner = "all"
                 /\ \A prop \in PropsOf(r) :
                       PropertyElementOk(definition.elements, prop, resolvable)

\* the properties renderTypes has a callback for
LoweredProps(r) ==
    {prop \in PropsOf(r) : TypeOf(graph, prop.type).kind \notin NoCallbackKinds}

\* C7 amended: every property whose type is not of kind none, any, map,
\* object or enum has exactly one element in the xsd:all of its class, with
\* the property's name, a resolvable type and minOccurs="0" exactly when it
\* is optional; the other properties have no element
C7_ElementPerLoweredProperty ==
    LoweringEnded =>
        LET resolvable == ResolvableTypeNames
        IN \A r \in Processed("class") :
              LET definition == DefinitionOf(r)
                  lowered == LoweredProps(r)
              IN /\ definition.tag = "complexType"
                 /\ definition.inner = "all"
                 /\ \A prop \in lowered :
                       PropertyElementOk(definition.elements, prop, resolvable)
                 /\ Len(definition.elements) = Cardinality(lowered)

\* a class with an optional and a required property, both lowered
C7_Witness ==
    /\ LoweringEnded
    /\ \E r \in Processed("class") :
          /\ Cardinality(LoweredProps(r)) = 2
          /\ \E p1, p2 \in LoweredProps(r) : p1.isOptional /\ ~p2.isOptional

\* the single child of an array's sequence as the claim describes it
ItemElementOk(r, elements) ==
    /\ Len(elements) = 1
    /\ elements[1].tag = "element"
    /\ elements[1].type = XSDTypeNameOf(graph[r].items)
    /\ elements[1].maxOccurs = "unbounded"
    /\ elements[1].minOccurs = "0"

\* C8 as stated: every lowered array has its item element
C8_ItemElement ==
    LoweringEnded =>
        \A r \in Processed("array") :
            LET definition == DefinitionOf(r)
            IN definition.inner = "sequence" /\ ItemElementOk(r, definition.elements)

\* C8 amended: the complex type of a lowered array holds an xsd:sequence;
\* when the item type is not of kind none, any, map, object or enum the
\* sequence has exactly one child element, typed by the item type, with
\* maxOccurs="unbounded" and minOccurs="0"; otherwise it is empty
C8_ItemElementOfLoweredItem ==
    LoweringEnded =>
        \A r \in Processed("array") :
            LET definition == DefinitionOf(r)
            IN /\ definition.tag = "complexType"
               /\ definition.inner = "sequence"
               /\ IF TypeOf(graph, graph[r].items).kind \notin NoCallbackKinds
                  THEN ItemElementOk(r, definition.elements)
                  ELSE definition.elements = <<>>

\* arrays of a primitive, of a class and of a processed type were lowered
C8_Witness ==
    /\ LoweringEnded
    /\ \E r \in Processed("array") : TypeOf(graph, graph[r].items).kind = "integer"
    /\ \E r \in Processed("array") : TypeOf(graph, graph[r].items).kind = "class"

\* every xsd:element of the schema: the declarations under the root and the
\* elements inside the definitions
AllElements ==
    {rootSchema[i] : i \in {j \in 1..Len(rootSchema) : rootSchema[j].tag = "element"}}
        \cup UNION {{rootSchema[i].elements[j] : j \in 1..Len(rootSchema[i].elements)} :
                        i \in 1..Len(rootSchema)}

\* C9: in the emitted schema every element's type is the name of a
\* definition under the schema root or a name of the primitive mapping
C9_ElementTypesResolve ==
    pc = "done" =>
        LET resolvable == ResolvableTypeNames
        IN \A e \in AllElements : e.type \in resolvable

\* elements of a primitive type, of a defined type met once and of a defined
\* type met again are all in the schema
C9_Witness ==
    /\ pc = "done"
    /\ \E e \in AllElements : e.type \in PrimitiveXSDTypeNames
    /\ \E r \in DOMAIN processedCustomTypes :
          Cardinality({e \in AllElements : e.type = processedCustomTypes[r]}) >= 3

OnlyClassesArraysPrimitives(g) ==
    \A r \in DOMAIN g : g[r].kind \in {"class", "array"} \cup MappedKinds

RECURSIVE RoundTripEquivalent(_, _, _, _)
\* out is the document j of type r, up to the two admitted changes: an
\* empty object has become null, an integer-string its canonical form
RoundTripEquivalent(g, r, j, out) ==
    LET t == TypeOf(g, r)
        typeOfProp(name) ==
            t.props[CHOOSE i \in 1..Len(t.props) : t.props[i].name = name].type
    IN IF j.j = "object" /\ j.names = <<>> /\ out = JSNull THEN TRUE
       ELSE IF t.kind = "integer-string"
       THEN j.text \in DOMAIN NumericStrings /\ out = JSString(NumericStrings[j.text])
       ELSE IF t.kind = "class"
       THEN /\ out.j = "object"
            /\ out.names = j.names
            /\ \A i \in 1..Len(j.names) :
                  RoundTripEquivalent(g, typeOfProp(j.names[i]), j.items[i], out.items[i])
       ELSE IF t.kind = "array"
       THEN /\ out.j = "array"
            /\ Len(out.items) = Len(j.items)
            /\ \A i \in 1..Len(j.items) :
                  RoundTripEquivalent(g, t.items, j.items[i], out.items[i])
       ELSE out = j

\* parseJSON has returned and parseXMLtoJSON has run on the re-read document
RoundTripRun == xmlObject # JSUndefined /\ pc \in {"converted", "failed"}

\* C1: for a graph of classes, arrays and primitive kinds and a document
\* that conforms to it, parseXMLtoJSON on the re-read output of parseJSON
\* returns the document, up to integer-string normalization and empty
\* objects read back as null
C1_RoundTrip ==
    (OnlyClassesArraysPrimitives(graph) /\ RoundTripRun) =>
        pc = "converted" /\ RoundTripEquivalent(graph, 1, inputObject, json)

(***************************************************************************)
(* Properties of emitSource as a whole                                     *)
(***************************************************************************)
\* nothing has been lowered and no document has been produced
NothingEmitted ==
    /\ rootSchema = renderBasicTypes
    /\ processedCustomTypes = <<>>
    /\ typeRefsByElementName = <<>>
    /\ callStack = <<>>
    /\ xsdTypes = NoTypes
    /\ xmlString = NoElement
    /\ json = JSUndefined
    /\ currentPaths = NoVisits

\* C11: when the number of top levels is not 1, or the number of input
\* objects is not 1, emitSource ends with the not-implemented error, and it
\* has then lowered no type and produced no output: the run is either at
\* its first statement or failed with that error, with the schema still
\* holding only the library types and no document built.
C11_NotImplemented ==
    (Len(topLevels) # 1 \/ inputObjects # 1) =>
        /\ pc \in {"emitSource", "failed"}
        /\ pc = "failed" => failure = "not-implemented"
        /\ pc = "emitSource" => failure = ""
        /\ NothingEmitted

\* one top level and two input objects, refused
C11_Witness ==
    /\ Len(topLevels) = 1
    /\ inputObjects = 2
    /\ pc = "failed"
    /\ failure = "not-implemented"
    /\ NothingEmitted

(***************************************************************************)
(* Properties of the conversion                                            *)
(***************************************************************************)
\* the kind the dictionaries record at a path; "" when they record none
RecordedKind(types, path) ==
    IF hasUnionType(types, path) THEN "union"
    ELSE IF hasArrayType(types, path) THEN "array"
    ELSE IF hasClassType(types, path) THEN "class"
    ELSE ""

RECURSIVE Nonconforming(_, _, _, _)
\* the value does not conform to the dictionaries at the path, in one of the
\* three ways: a class value lacks a non-optional declared property; the
\* value is a list, an object or a primitive where the kind recorded is
\* another of the three; no member of the union at the path accepts it
Nonconforming(types, value, path, kind) ==
    CASE kind = "class" ->
            LET props == getClassType(types, path)
            IN \/ value.j # "object"
               \/ \E k \in 1..Len(props) :
                     IF HasKey(value, props[k].name)
                     THEN Nonconforming(types, GetKey(value, props[k].name),
                              ChildPath(path, props[k].name), props[k].kind)
                     ELSE ~props[k].isOptional
      [] kind = "array" ->
            \/ value.j # "array"
            \/ \E i \in 1..Len(value.items) :
                  Nonconforming(types, value.items[i],
                      ChildPath(path, getArrayType(types, path).itemTag),
                      getArrayType(types, path).kind)
      [] kind = "union" ->
            \A i \in 1..Len(getUnionType(types, path)) :
                getPrimitiveKindXMLValue(value, getUnionType(types, path)[i])
                    = JSUndefined
      [] OTHER -> value.j \in {"object", "array"}

\* parseJSON has been given the input document
ParseJSONCalled == inputObject # JSUndefined

\* C12: whenever the document given to parseJSON does not conform to the
\* path dictionaries (a class value lacks a required declared property, a
\* value is of another kind than the one recorded at its path, or no member
\* of a union accepts the value), parseJSON fails and returns no XML.
C12_MalformedInputFails ==
    (ParseJSONCalled
        /\ Nonconforming(xsdTypes, inputObject, topLevelName,
                         RecordedKind(xsdTypes, topLevelName))) =>
        pc = "failed" /\ failure = "malformed-input" /\ xmlString = NoElement

RECURSIVE ArrayLengths(_)
\* the lengths of the lists a JSON value holds, itself included
ArrayLengths(value) ==
    (IF value.j = "array" THEN {Len(value.items)} ELSE {})
    \cup UNION {ArrayLengths(value.items[i]) : i \in 1..Len(value.items)}

RECURSIVE EmptyListElements(_, _)
\* in the element built for the value, each list of the value (all of them
\* empty) is an element without children and without text
EmptyListElements(value, element) ==
    CASE value.j = "array" -> element.children = <<>> /\ element.text = ""
      [] value.j = "object" ->
            /\ Len(element.children) = Len(value.items)
            /\ \A i \in 1..Len(value.items) :
                  /\ element.children[i].tag = value.names[i]
                  /\ EmptyListElements(value.items[i], element.children[i])
      [] OTHER -> TRUE

RECURSIVE EmptyListsReturned(_, _)
\* where the value holds a list (all of them empty) the result holds the
\* empty list
EmptyListsReturned(value, out) ==
    CASE value.j = "array" -> out = JSArray(<<>>)
      [] value.j = "object" ->
            /\ out.j = "object"
            /\ \A i \in 1..Len(value.names) :
                  /\ HasKey(out, value.names[i])
                  /\ EmptyListsReturned(value.items[i], GetKey(out, value.names[i]))
      [] OTHER -> TRUE

\* C13: for a document whose lists, at paths recorded as arrays, are all
\* the empty list, parseJSON succeeds and writes each as an element without
\* children, and parseXMLtoJSON of the re-read XML succeeds and returns the
\* empty list there.
C13_EmptyListConverts ==
    (ParseJSONCalled /\ ArrayLengths(inputObject) = {0}) =>
        /\ pc # "failed"
        /\ pc \in {"convert", "parseXMLtoJSON", "converted"} =>
              EmptyListElements(inputObject, xmlString)
        /\ pc = "converted" => EmptyListsReturned(inputObject, json)

\* the type admits null: it is of kind null, or a union with a null member
AdmitsNull(g, r) ==
    \/ TypeOf(g, r).kind = "null"
    \/ /\ TypeOf(g, r).kind = "union"
       /\ \E i \in 1..Len(TypeOf(g, r).members) :
             TypeOf(g, TypeOf(g, r).members[i]).kind = "null"

\* the properties of the top-level class that hold null in the document
\* and whose type admits null
NullPositions ==
    IF ParseJSONCalled /\ TypeOf(graph, 1).kind = "class" /\ inputObject.j = "object"
    THEN {i \in 1..Len(inputObject.names) :
            /\ inputObject.items[i] = JSNull
            /\ \E k \in 1..Len(graph[1].props) :
                  /\ graph[1].props[k].name = inputObject.names[i]
                  /\ AdmitsNull(graph, graph[1].props[k].type)}
    ELSE {}

\* C14: where the document holds null at a property whose type admits null
\* (kind null, or a union with a null member), parseJSON writes an element
\* of empty content for it and parseXMLtoJSON returns null for it.
C14_NullRoundTrip ==
    \A i \in NullPositions :
        /\ pc # "failed"
        /\ pc \in {"convert", "parseXMLtoJSON", "converted"} =>
              /\ xmlString.children[i].tag = inputObject.names[i]
              /\ xmlString.children[i].text = ""
              /\ xmlString.children[i].children = <<>>
        /\ pc = "converted" => GetKey(json, inputObject.names[i]) = JSNull

\* the properties of the top-level class whose type is a union of primitive
\* kinds and that the document holds
UnionPositions ==
    IF ParseJSONCalled /\ TypeOf(graph, 1).kind = "class" /\ inputObject.j = "object"
    THEN {i \in 1..Len(inputObject.names) :
            \E k \in 1..Len(graph[1].props) :
                /\ graph[1].props[k].name = inputObject.names[i]
                /\ TypeOf(graph, graph[1].props[k].type).kind = "union"}
    ELSE {}

\* C15: for a union of primitive kinds, the members in any order, and a
\* value v of one of the member kinds, parseXMLtoJSON of the XML parseJSON
\* writes for v returns v itself: the same JSON type and the same value.
C15_UnionRoundTrip ==
    \A i \in UnionPositions :
        /\ pc # "failed"
        /\ pc = "converted" =>
              GetKey(json, inputObject.names[i]) = inputObject.items[i]

\* C16: building XSDTypes from the XSD emitted for a type graph terminates,
\* also when a class reaches itself through its properties or array items:
\* the descent of getXSDObjectTypesStructure from the top-level elements
\* visits finitely many paths.
C16_XSDTypesTerminates ==
    (pc = "done" /\ ~FetchTagFails(rootSchema)) =>
        ~NewXSDTypes(rootSchema).overflow

RECURSIVE SourcePaths(_, _, _, _)
\* the paths of the type graph from type r met under the key at the path:
\* a path extends by the property names of a class and by the item tag of
\* an array; each path comes with the TypeRef found there
SourcePaths(g, r, key, path) ==
    LET t == TypeOf(g, r)
    IN {[path |-> path, type |-> r]}
       \cup (CASE t.kind = "class" ->
                    UNION {SourcePaths(g, t.props[k].type, t.props[k].name,
                                       ChildPath(path, t.props[k].name)) :
                              k \in 1..Len(t.props)}
               [] t.kind = "array" ->
                    SourcePaths(g, t.items, key \o ItemSuffix,
                                ChildPath(path, key \o ItemSuffix))
               [] OTHER -> {})

\* the path starts at the top-level tag
FromTopLevel(path) ==
    \/ path = topLevelName
    \/ /\ Len(path) > Len(topLevelName)
       /\ SubSeq(path, 1, Len(topLevelName) + 1) = topLevelName \o <<".">>

\* the paths at which the source holds a type of the kind
SourcePathsOfKind(kind) ==
    {s.path : s \in {s \in SourcePaths(graph, 1, topLevelName, topLevelName) :
                        TypeOf(graph, s.type).kind = kind}}

\* name and optional flag of each property, as a set
PropertyFlags(props) == {<<props[k].name, props[k].isOptional>> : k \in 1..Len(props)}

\* C17: once XSDTypes is built from the emitted XSD, for the paths from the
\* top-level tag: objectTypesByPath has a path exactly when the source type
\* there is a class, with the same property names and optional flags;
\* arrayTypesByPath has it exactly when it is an array; unionTypesByPath has
\* it exactly when it is a union, with the member kinds in member order.
C17_DictionariesMatchGraph ==
    pc = "parseJSON" =>
        LET source == SourcePaths(graph, 1, topLevelName, topLevelName)
        IN /\ {p \in DOMAIN xsdTypes.objectTypesByPath : FromTopLevel(p)}
                 = SourcePathsOfKind("class")
           /\ {p \in DOMAIN xsdTypes.arrayTypesByPath : FromTopLevel(p)}
                 = SourcePathsOfKind("array")
           /\ {p \in DOMAIN xsdTypes.unionTypesByPath : FromTopLevel(p)}
                 = SourcePathsOfKind("union")
           /\ \A s \in source :
                 LET t == TypeOf(graph, s.type)
                 IN /\ (t.kind = "class" /\ hasClassType(xsdTypes, s.path)) =>
                          PropertyFlags(getClassType(xsdTypes, s.path))
                              = PropertyFlags(t.props)
                    /\ (t.kind = "union" /\ hasUnionType(xsdTypes, s.path)) =>
                          getUnionType(xsdTypes, s.path)
                              = [i \in 1..Len(t.members) |->
                                    TypeOf(graph, t.members[i]).kind]

(***************************************************************************)
(* Properties of the names the lowering gives                              *)
(***************************************************************************)
\* the array definitions that have an item element
ArraysWithItem ==
    {r \in Processed("array") : DefinitionOf(r).elements # <<>>}

\* C18 as stated: for every element, local or top-level, named K and typed
\* by an array complex type, the single child of that type's sequence is
\* named KItem.
C18_ItemNamedAfterElement ==
    pc = "done" =>
        \A e \in AllElements : \A r \in ArraysWithItem :
            e.type = processedCustomTypes[r] =>
                /\ Len(DefinitionOf(r).elements) = 1
                /\ DefinitionOf(r).elements[1].key = e.key \o ItemSuffix

\* the keys under which the lowering met the type: the names of the local
\* elements typed by it and the tags it is recorded under
KeysReferencing(r) ==
    {e.key : e \in {e \in UNION {{rootSchema[i].elements[j] :
                                     j \in 1..Len(rootSchema[i].elements)} :
                                 i \in 1..Len(rootSchema)} :
                       e.type = processedCustomTypes[r]}}
    \cup {typeRefsByElementName[i].key : i \in KeysOf(r)}

\* C18, amended: the single child of an array type's sequence is named
\* KItem for the key K under which the array type is first lowered (the
\* step that defines the type calls renderTypes for the item under KItem
\* into the new sequence), K being one of the keys the type is referenced
\* under; an element of another name that references the type, or a
\* top-level element renamed by a prefix, leaves the item tag as it is.
C18_ItemNamedAfterFirstKey ==
    /\ [](LoweringEnded =>
            \A r \in ArraysWithItem :
                /\ Len(DefinitionOf(r).elements) = 1
                /\ \E K \in KeysReferencing(r) :
                      DefinitionOf(r).elements[1].key = K \o ItemSuffix)
    /\ [][(/\ pc = "renderTypes"
           /\ Head(callStack).t \notin DOMAIN processedCustomTypes
           /\ TypeOf(graph', Head(callStack).t).kind = "array") =>
            /\ callStack' # <<>>
            /\ Head(callStack').key = Head(callStack).key \o ItemSuffix
            /\ Head(callStack').t = graph'[Head(callStack).t].items
            /\ Head(callStack').schema = Len(rootSchema')
            /\ rootSchema'[Len(rootSchema')].name
                  = processedCustomTypes'[Head(callStack).t]
            /\ rootSchema'[Len(rootSchema')].inner = "sequence"]_allVars

\* an element of another name than the one the array type was first lowered
\* under references the type
C18_Witness ==
    /\ pc = "done"
    /\ \E e \in AllElements : \E r \in ArraysWithItem :
          /\ e.type = processedCustomTypes[r]
          /\ DefinitionOf(r).elements[1].key # e.key \o ItemSuffix
    /\ \E e \in AllElements : \E r \in ArraysWithItem :
          /\ e.type = processedCustomTypes[r]
          /\ DefinitionOf(r).elements[1].key = e.key \o ItemSuffix

\* the candidate name of an entry of tag T at index i >= 0, chain being the
\* entry's prefix chain: chain[i] + TitleCase(T) inside the chain, the last
\* prefix + TitleCase(T) beyond it, T itself for an empty chain
Candidate(chain, T, i) ==
    IF chain = <<>> THEN T
    ELSE IF i < Len(chain) THEN chain[i + 1] \o TitleCase(T)
    ELSE chain[Len(chain)] \o TitleCase(T)

\* the candidates of a tag's entries at index i are pairwise distinct
CandidatesDistinct(entries, T, i) ==
    \A j, k \in 1..Len(entries) :
        j # k => Candidate(entries[j].elementPrefixes, T, i)
                    # Candidate(entries[k].elementPrefixes, T, i)

\* C19: renderElements declares, for a tag T with one entry, one element
\* named T typed by the name processedCustomTypes holds for the entry; for
\* a tag with several entries, one element per entry, in entry order, named
\* by the entry's candidate at the smallest index at which the candidates
\* are pairwise distinct and typed by the entry's processed name.
C19_CandidateNames ==
    pc = "done" =>
        \A k \in 1..Len(typeRefsByElementName) :
            LET decl == DeclarationsFor(k)
                T == typeRefsByElementName[k].key
                entries == typeRefsByElementName[k].entries
                typed == \A j \in 1..Len(entries) :
                            decl[j].type = processedCustomTypes[entries[j].typeRef]
            IN /\ Len(decl) = Len(entries)
               /\ typed
               /\ IF Len(entries) = 1 THEN decl[1].key = T
                  ELSE \E i \in 0..MaxPrefixIndex :
                          /\ CandidatesDistinct(entries, T, i)
                          /\ \A h \in 0..(i - 1) : ~CandidatesDistinct(entries, T, h)
                          /\ \A j \in 1..Len(entries) :
                                decl[j].key
                                    = Candidate(entries[j].elementPrefixes, T, i)

\* a tag with several entries was declared at an index after the first, at
\* which an entry's candidate is not the one of its last prefix; another tag
\* has a single entry
C19_Witness ==
    /\ pc = "done"
    /\ \E k \in 1..Len(typeRefsByElementName) :
          Len(typeRefsByElementName[k].entries) = 1
    /\ \E k \in 1..Len(typeRefsByElementName) :
          LET T == typeRefsByElementName[k].key
              entries == typeRefsByElementName[k].entries
          IN /\ Len(entries) > 1
             /\ ~CandidatesDistinct(entries, T, 0)
             /\ \E j \in 1..Len(entries) :
                   DeclarationsFor(k)[j].key
                       # Candidate(entries[j].elementPrefixes, T,
                                   Len(entries[j].elementPrefixes))

\* the entries recorded under a tag; none when the tag is not recorded
RecordedEntries(byName, key) ==
    IF \E i \in 1..Len(byName) : byName[i].key = key
    THEN byName[CHOOSE i \in 1..Len(byName) : byName[i].key = key].entries
    ELSE <<>>

\* every tag but the given one holds the entries it held, and the given one
\* holds them with at most one more, recorded with the given chain
RecordsOnlyUnder(key, chain) ==
    /\ \A i \in 1..Len(typeRefsByElementName) :
          LET old == typeRefsByElementName[i]
              new == RecordedEntries(typeRefsByElementName', old.key)
          IN IF old.key # key THEN new = old.entries
             ELSE \/ new = old.entries
                  \/ /\ Len(new) = Len(old.entries) + 1
                     /\ SubSeq(new, 1, Len(old.entries)) = old.entries
                     /\ new[Len(new)].elementPrefixes = chain
    /\ \A i \in 1..Len(typeRefsByElementName') :
          LET new == typeRefsByElementName'[i]
          IN (new.key # key
                \/ RecordedEntries(typeRefsByElementName, key) = <<>>) =>
                \/ \E h \in 1..Len(typeRefsByElementName) :
                      typeRefsByElementName[h].key = new.key
                \/ /\ new.key = key
                   /\ Len(new.entries) = 1
                   /\ new.entries[1].elementPrefixes = chain

\* C20: a renderClass call that first lowers a class met under key k with
\* the chain [p1, .., pn] calls renderTypes for every property with the
\* chain [k, p1 + TitleCase(k), .., pn + TitleCase(k)]; a renderArray call
\* that first lowers an array calls renderTypes for the item with the chain
\* it received; a call on a class already processed makes no call and
\* records nothing but, at most, the class itself under k with the chain
\* received, so the chains recorded for its properties stay.
C20_PrefixChains ==
    [][pc = "renderTypes" =>
        LET c == Head(callStack)
            t == TypeOf(graph', c.t)
            first == c.t \notin DOMAIN processedCustomTypes
            chain == <<c.key>>
                        \o [i \in 1..Len(c.prefixes) |->
                               c.prefixes[i] \o TitleCase(c.key)]
        IN /\ RecordsOnlyUnder(c.key, c.prefixes)
           /\ (t.kind = "class" /\ first) =>
                 /\ Len(callStack') = Len(t.props) + Len(callStack) - 1
                 /\ \A i \in 1..Len(t.props) :
                       /\ callStack'[i].t = t.props[i].type
                       /\ callStack'[i].key = t.props[i].name
                       /\ callStack'[i].prefixes = chain
           /\ (t.kind = "array" /\ first) =>
                 /\ Len(callStack') = Len(callStack)
                 /\ callStack'[1].t = t.items
                 /\ callStack'[1].prefixes = c.prefixes
           /\ (t.kind = "class" /\ ~first) =>
                 callStack' = Tail(callStack)]_allVars

\* a class was lowered below two classes, a property of a class that is the
\* item of an array was recorded with the chain the array passed on,
\* extended by the item tag, and a processed class was met again
C20_Witness ==
    /\ pc = "done"
    /\ \E i \in 1..Len(typeRefsByElementName) :
          \E j \in 1..Len(typeRefsByElementName[i].entries) :
              LET entry == typeRefsByElementName[i].entries[j]
              IN /\ Len(entry.elementPrefixes) >= 3
                 /\ TypeOf(graph, entry.typeRef).kind = "class"
    /\ \E r \in ArraysWithItem :
          /\ TypeOf(graph, graph[r].items).kind = "class"
          /\ \E i \in 1..Len(typeRefsByElementName) :
                \E j \in 1..Len(typeRefsByElementName[i].entries) :
                    LET chain == typeRefsByElementName[i].entries[j].elementPrefixes
                    IN /\ Len(chain) >= 2
                       /\ chain[1] = DefinitionOf(r).elements[1].key
    /\ \E r \in Processed("class") :
          Cardinality({e \in AllElements : e.type = processedCustomTypes[r]}) >= 3

(***************************************************************************)
(* Properties of XSDTypes and of the converter's walk                      *)
(***************************************************************************)
\* XSDTypes has been built
XSDTypesBuilt ==
    pc \in {"parseJSON", "convert", "parseXMLtoJSON", "converted"}
        \/ (pc = "failed" /\ failure = "malformed-input")

\* values parseUnion is asked about, of every JavaScript type
UnionProbeValues ==
    WrongValues \cup {JSString(""), JSString("7"), JSString("true"),
                      JSBoolean("false"), JSNumber("1.5")}

\* the member kind accepts the value in the direction
Accepts(kind, value, format) ==
    (IF format = "XML" THEN getPrimitiveKindXMLValue(value, kind)
     ELSE getPrimitiveKindJSONValue(value, kind)) # JSUndefined

\* the outcome is the coercion by the first member kind that accepts the
\* value, a failure when none does
FirstAcceptingOutcome(outcome, kinds, value, format) ==
    /\ outcome.ok <=> \E i \in 1..Len(kinds) : Accepts(kinds[i], value, format)
    /\ outcome.ok =>
          \E i \in 1..Len(kinds) :
              /\ Accepts(kinds[i], value, format)
              /\ \A k \in 1..(i - 1) : ~Accepts(kinds[k], value, format)
              /\ outcome.value =
                    (IF format = "XML" THEN getPrimitiveKindXMLValue(value, kinds[i])
                     ELSE getPrimitiveKindJSONValue(value, kinds[i]))

ParseXMLtoJSONCalled ==
    xmlObject.j = "object" /\ pc \in {"converted", "failed"}

\* the properties objectTypesByPath declares at the top-level path
TopClassProps == getClassType(xsdTypes, xmlObject.names[1])

DeclaredAtTop(propKey) ==
    \E k \in 1..Len(TopClassProps) : TopClassProps[k].name = propKey

\* the children of the top-level element that are not attributes
TopChildren ==
    {i \in 1..Len(xmlObject.items[1].names) :
        Head(xmlObject.items[1].names[i]) # "@"}

RequiredPresentAtTop ==
    \A k \in 1..Len(TopClassProps) :
        TopClassProps[k].isOptional
            \/ HasKey(xmlObject.items[1], TopClassProps[k].name)

\* a declared child of primitive kind whose value the kind refuses
RefusedAtTop(i) ==
    LET propKey == xmlObject.items[1].names[i]
        kind == TopClassProps[CHOOSE k \in 1..Len(TopClassProps) :
                                  TopClassProps[k].name = propKey].kind
    IN /\ DeclaredAtTop(propKey)
       /\ isPrimitiveTypeKind(kind)
       /\ getPrimitiveKindJSONValue(xmlObject.items[1].items[i], kind) = JSUndefined

\* C22 (as stated): the XML to JSON conversion of a class node succeeds
\* only if objectTypesByPath holds its path, every declared property that
\* is not optional is present, and every child whose key does not begin
\* with '@' is a declared property.
C22_UndeclaredChildFails ==
    (ParseXMLtoJSONCalled /\ graph[1].kind = "class" /\ pc = "converted") =>
        /\ hasClassType(xsdTypes, xmlObject.names[1])
        /\ RequiredPresentAtTop
        /\ \A i \in TopChildren : DeclaredAtTop(xmlObject.items[1].names[i])

\* C22 (amended): the conversion of a class node succeeds only if
\* objectTypesByPath holds its path, every declared property that is not
\* optional is present and every declared child is accepted by its kind,
\* and fails otherwise; the result holds the declared children in document
\* order, and neither a key that begins with '@' nor an undeclared child.
C22_UndeclaredChildSkipped ==
    (ParseXMLtoJSONCalled /\ graph[1].kind = "class") =>
        /\ pc = "converted" =>
              /\ hasClassType(xsdTypes, xmlObject.names[1])
              /\ RequiredPresentAtTop
              /\ \A i \in TopChildren : ~RefusedAtTop(i)
              /\ json.j = "object"
              /\ json.names =
                    [k \in 1..Cardinality({i \in TopChildren :
                                  DeclaredAtTop(xmlObject.items[1].names[i])}) |->
                        xmlObject.items[1].names[
                            Ascending({i \in TopChildren :
                                  DeclaredAtTop(xmlObject.items[1].names[i])})[k]]]
        /\ (~RequiredPresentAtTop \/ \E i \in TopChildren : RefusedAtTop(i)) =>
              pc = "failed"

\* a document with a declared and an undeclared child was converted
C22_Witness ==
    /\ ParseXMLtoJSONCalled /\ graph[1].kind = "class" /\ pc = "converted"
    /\ HasKey(xmlObject.items[1], NameZ)
    /\ ~HasKey(json, NameZ)
    /\ \E i \in TopChildren : DeclaredAtTop(xmlObject.items[1].names[i])

RECURSIVE DottedChain(_)
\* the tags of a chain joined by dots
DottedChain(chain) ==
    IF Len(chain) = 1 THEN chain[1]
    ELSE ChildPath(DottedChain(SubSeq(chain, 1, Len(chain) - 1)), chain[Len(chain)])

\* in a call of parseCurrentObject below the top level, currentPath is the
\* dotted chain of the tags from the top-level tag down to the node, and on
\* return it is the path of the parent
PathsFollowTags(visits) ==
    \A k \in 1..Len(visits) :
        /\ visits[k].path = DottedChain(visits[k].chain)
        /\ Len(visits[k].chain) > 1 =>
              visits[k].left =
                  DottedChain(SubSeq(visits[k].chain, 1, Len(visits[k].chain) - 1))

\* C23: in parseJSON and in parseXMLtoJSON, at every visited node
\* currentPath equals the dotted chain of the tags from the top-level tag
\* to the node, and after a child is processed currentPath is again the
\* path of its parent, for every tag the document carries.
C23_CurrentPathFollowsTags ==
    /\ PathsFollowTags(currentPaths.parseJSON)
    /\ PathsFollowTags(currentPaths.parseXMLtoJSON)

\* the types of a kind renderTypes has no callback for
WithoutCallback ==
    {r \in DOMAIN graph : TypeOf(graph, r).kind \in NoCallbackKinds}

\* the elements of the schema that stand for a property or an item of a
\* type without callback
ElementsWithoutCallback ==
    {r \in DOMAIN processedCustomTypes :
        LET definition == DefinitionOf(r)
            t == TypeOf(graph, r)
        IN \/ /\ t.kind = "class"
              /\ \E i \in 1..Len(t.props) : \E j \in 1..Len(definition.elements) :
                    /\ t.props[i].type \in WithoutCallback
                    /\ definition.elements[j].key = t.props[i].name
           \/ /\ t.kind = "array"
              /\ t.items \in WithoutCallback
              /\ definition.elements # <<>>}

\* C24: the renderTypes call of a type of kind none, any, map, object or
\* enum emits no node and leaves processedCustomTypes and
\* typeRefsByElementName as they are; no class holds an element for a
\* property of such a type and no array an element for items of such a type.
C24_NoCallbackKindsEmitNothing ==
    /\ [](ElementsWithoutCallback = {})
    /\ [][(/\ pc = "renderTypes"
           /\ callStack # <<>>
           /\ TypeOf(graph', Head(callStack).t).kind \in NoCallbackKinds)
          => /\ rootSchema' = rootSchema
             /\ processedCustomTypes' = processedCustomTypes
             /\ typeRefsByElementName' = typeRefsByElementName]_allVars

\* a class with a property of such a type and a property of another type
\* has been lowered
C24_Witness ==
    /\ LoweringEnded
    /\ 1 \in DOMAIN processedCustomTypes
    /\ graph[1].kind = "class"
    /\ \E i \in 1..Len(graph[1].props) :
          TypeOf(graph, graph[1].props[i].type).kind = "enum"
    /\ DefinitionOf(1).elements # <<>>

\* positions under the schema root of the library's simple types, of the
\* complexTypeN definitions and of the element declarations
LibraryPositions(schema) ==
    {i \in 1..Len(schema) : IsTypeDefinition(schema[i]) /\ schema[i].name \in LibraryTypeNames}

ComplexTypePositions(schema) ==
    {i \in 1..Len(schema) :
        \E n \in 1..Len(schema) : schema[i].name = "complexType" \o ToString(n)}

ElementPositions(schema) == {i \in 1..Len(schema) : schema[i].tag = "element"}

\* the N of the complexTypeN defined at a position
NumberAt(schema, i) ==
    CHOOSE n \in 1..Len(schema) : schema[i].name = "complexType" \o ToString(n)

\* C25: under the schema root every simple type of the library precedes
\* every complexTypeN definition, every complexTypeN definition precedes
\* every element declaration renderElements emitted, and the complexTypeN
\* definitions appear in increasing N.
C25_DocumentOrder ==
    LET library == LibraryPositions(rootSchema)
        complex == ComplexTypePositions(rootSchema)
        elements == ElementPositions(rootSchema)
    IN /\ library = 1..Len(renderBasicTypes)
       /\ \A i \in library : \A j \in complex : i < j
       /\ \A i \in complex : \A j \in elements : i < j
       /\ \A i, j \in complex :
             i < j => NumberAt(rootSchema, i) < NumberAt(rootSchema, j)

\* the schema holds two complexTypeN definitions and two element
\* declarations
C25_Witness ==
    /\ pc = "done"
    /\ Cardinality(ComplexTypePositions(rootSchema)) >= 2
    /\ Cardinality(ElementPositions(rootSchema)) >= 2

\* C26: XSDSchemaWrapper.ele rewrites the value of an attribute to
\* xsd:<value> exactly when the key is base or type and the value is one of
\* string, integer, decimal, dateTime, date, time, boolean; every other
\* attribute and value is passed through unchanged, in the same order, and
\* the name of the created element carries the xsd: prefix.
C26_EleRewritesTypeAttributes ==
    (pc = "returned" /\ call.method = "ele") =>
        /\ returned.name = "xsd:" \o call.name
        /\ Len(returned.attributes) = Len(call.attributes)
        /\ \A i \in 1..Len(call.attributes) :
              LET given == call.attributes[i]
                  passed == returned.attributes[i]
                  rewritten ==
                      /\ given.key \in {"base", "type"}
                      /\ given.value \in {"string", "integer", "decimal", "dateTime",
                                          "date", "time", "boolean"}
              IN /\ passed.key = given.key
                 /\ rewritten => passed.value = "xsd:" \o given.value
                 /\ ~rewritten => passed.value = given.value

\* ele was given a type attribute that is rewritten and a name attribute of
\* the same value that is not
C26_Witness ==
    /\ pc = "returned" /\ call.method = "ele"
    /\ \E i, j \in 1..Len(call.attributes) :
          /\ call.attributes[i] = [key |-> "type", value |-> "string"]
          /\ returned.attributes[i].value = "xsd:string"
          /\ call.attributes[j] = [key |-> "name", value |-> "string"]
          /\ returned.attributes[j].value = "string"

\* a coercion of kind none has returned
CoercedNone(method) ==
    pc = "returned" /\ call.method = method /\ call.kind = "none"

\* null or undefined
Nullish(value) == value.j \in {"null", "undefined"}

\* an object or an array that Object.keys finds nothing in
EmptyStructure(value) ==
    value.j \in {"object", "array"} /\ value.items = <<>>

\* C27 (as stated): for kind none, getPrimitiveKindJSONValue returns null
\* only when the value is null or undefined and returns undefined for every
\* other value, and getPrimitiveKindXMLValue returns '' for every value.
C27_NoneAcceptsNullishOnly ==
    /\ CoercedNone("getPrimitiveKindJSONValue") =>
          returned = (IF Nullish(call.value) THEN JSNull ELSE JSUndefined)
    /\ CoercedNone("getPrimitiveKindXMLValue") => returned = JSString("")

\* C27 (amended): for kind none, getPrimitiveKindJSONValue returns null
\* when the value is null, undefined, or an object or array without keys,
\* and undefined for every other value; getPrimitiveKindXMLValue returns ''
\* for every value.
C27_NoneAcceptsNullishAndEmpty ==
    /\ CoercedNone("getPrimitiveKindJSONValue") =>
          returned = (IF Nullish(call.value) \/ EmptyStructure(call.value)
                      THEN JSNull ELSE JSUndefined)
    /\ CoercedNone("getPrimitiveKindXMLValue") => returned = JSString("")

\* the empty object, as an empty element is read, was coerced to null
C27_Witness ==
    /\ CoercedNone("getPrimitiveKindJSONValue")
    /\ call.value = JSObject(<<>>, <<>>)
    /\ returned = JSNull

\* C28: after renderElements the element declarations under the schema
\* root have pairwise distinct names: a disambiguated name equals neither
\* the name of another tag nor a name produced for another tag.
C28_TopLevelNamesDistinct ==
    pc \in {"renderElements", "done"} =>
        LET declared == TopLevelElements(rootSchema)
        IN \A i, j \in 1..Len(declared) : i # j => declared[i].key # declared[j].key

\* the names of the built-in types of the xsd: namespace
BuiltInTypeNames ==
    {"xsd:string", "xsd:integer", "xsd:decimal", "xsd:dateTime", "xsd:date",
     "xsd:time", "xsd:boolean"}

RECURSIVE NamesUsedIn(_)
\* the values of the type and base attributes of a list of nodes and of
\* the nodes below them
NamesUsedIn(nodes) ==
    IF nodes = <<>> THEN {}
    ELSE LET node == Head(nodes)
         IN (IF node.type = "" THEN {} ELSE {node.type})
            \cup {node.bases[i] : i \in 1..Len(node.bases)}
            \cup NamesUsedIn(node.elements)
            \cup NamesUsedIn(Tail(nodes))

\* C29: in the emitted schema every type name used in a type or base
\* attribute that is not a built-in of the xsd: namespace is the name of a
\* simpleType or complexType defined under the root of the same schema.
C29_TypeNamesDefined ==
    pc = "done" =>
        \A name \in NamesUsedIn(rootSchema) \ BuiltInTypeNames :
            DefinitionsOf(rootSchema, name) # {}

\* parse has ended: finish has returned or a method has panicked
ParseEnded == call.method = "parse" /\ pc \in {"finished", "failed"}

\* C30: after the tokens of a JSON document whose root is an object or an
\* array have all been consumed, finish succeeds with no context left and
\* getUncompressedObject is the document: the same keys, the same order of
\* array items and the same primitive values.
C30_UncompressedObjectIsDocument ==
    ParseEnded =>
        /\ pc = "finished"
        /\ compressedJSON.ctx = Undefined
        /\ compressedJSON.contextStack = <<>>
        /\ compressedJSON.uncompressedSource = call.value
====
